---- MODULE Spec2Model ----
(***************************************************************************)
(* The session/orchestration engine of the roaming assistant: the session  *)
(* store (src/src/conversation/state.js) and the turn handler with its     *)
(* human-in-the-loop suspend/resume protocol (src/unnamed/part_003, the    *)
(* module imported as ./api/chat-handler.js).                              *)
(*                                                                         *)
(* Strings are sequences of one-character strings, so that                 *)
(* String.prototype.includes is substring search.  A character outside     *)
(* ASCII is written as the token "uXXXX" of its code point; the comments   *)
(* give the original text.                                                 *)
(*                                                                         *)
(* Spec is the turn handler, one request at a time, step by step between   *)
(* its awaits on the external layer; its clock stands still, so sessions   *)
(* stay live during a behaviour.  SpecStore is the session store under     *)
(* direct calls of its exported functions and a moving clock.  SpecLog is  *)
(* the message log of one session under its writers.  SpecLimit is the     *)
(* rate limiting middleware of the server (src/unnamed/part_000) under     *)
(* requests and a moving clock, and SpecApi the endpoint POST /api/chat:   *)
(* that middleware, the route of src/src/api/chat.js and the turn handler. *)
(* SpecReply is Spec with a caller that stores usage data, plans and a     *)
(* recommendation; SpecLive is Spec in which every await settles; and      *)
(* SpecDetect is the turn handler on texts made of country names,          *)
(* SpecApprove on texts with and without approval keywords.  SpecTurns is  *)
(* a long run of turns on one session, SpecTwo the handler with two        *)
(* requests in flight at once, and SpecExpire the handler under a moving   *)
(* clock and the sweep.                                                    *)
(***************************************************************************)
EXTENDS Integers, Sequences, FiniteSets, TLC

VARIABLES
    sessions,       \* state.js:13   the Map sessionId -> session object
    arrays,         \* the heap of message arrays: a session object holds a reference
    now,            \* the clock read by new Date() / Date.now(), in ms; a call of the
                    \* store reads it when it starts (t) and again when it ends (now')
    agentInstance,  \* part_003:13   the singleton agent handle (None until built)
    task,           \* the locals of the request being handled and where it is suspended
    obs,            \* what the request in flight has asked of the external layer
    result,         \* what the last finished request returned or threw
    turns,          \* requests started so far; session identifiers handed out
    call,           \* the call last made on the session store from outside a turn
    never,          \* the Map, and what the last call returned, had the same calls
                    \* been made and cleanupExpiredSessions never run
    rateLimitStore, \* part_000:211  the Map key -> {count, resetAt}
    res,            \* what the rate limiting middleware did with the last request
    waiting         \* task, obs and result of a second request, which waits at an
                    \* await (or has not arrived, or has ended) while the first runs

vars == <<sessions, arrays, now, agentInstance, task, obs, result, turns, call, never,
          rateLimitStore, res, waiting>>

----------------------------------------------------------------------------
(* Bounds of the model *)

\* requests per behaviour
MaxTurns == 2
\* gated calls the external layer reports in the course of one run, from the
\* message that starts it to its final output, suspensions included
MaxCalls == 3
\* steps of the clock per behaviour of the store
MaxTicks == 2
\* messages pushed per behaviour of the message log
MaxPushes == 24

----------------------------------------------------------------------------
(* null / undefined, and values that may be absent *)

None == <<>>
Some(x) == <<x>>

\* {...a, ...b}: the fields of b override those of a
Spread(a, b) == [f \in (DOMAIN a) \cup (DOMAIN b) |-> IF f \in DOMAIN b THEN b[f] ELSE a[f]]

----------------------------------------------------------------------------
(* Strings *)

\* s.includes(k)
Includes(s, k) == \E i \in 1..(Len(s) - Len(k) + 1) : SubSeq(s, i, i + Len(k) - 1) = k

\* keywords.some(k => s.includes(k))
SomeIncluded(keywords, s) == \E j \in 1..Len(keywords) : Includes(s, keywords[j])

RECURSIVE TrimStart(_)
TrimStart(s) == IF s # <<>> /\ Head(s) = " " THEN TrimStart(Tail(s)) ELSE s

RECURSIVE TrimEnd(_)
TrimEnd(s) == IF s # <<>> /\ s[Len(s)] = " " THEN TrimEnd(SubSeq(s, 1, Len(s) - 1)) ELSE s

\* s.trim()
Trim(s) == TrimEnd(TrimStart(s))

\* part_003:82, the reply when the run gives no final output: '抱歉，我遇到了一些問題。請稍後再試。'
DEFAULT_REPLY ==
    <<"u62b1", "u6b49", "uff0c", "u6211", "u9047", "u5230", "u4e86", "u4e00", "u4e9b",
    "u554f", "u984c", "u3002", "u8acb", "u7a0d", "u5f8c", "u518d", "u8a66", "u3002">>
\* part_003:106, the prompt re-asking for approval: '目前有等待您確認的操作：是否允許查詢漫遊方案或產生推薦？請回覆「好」或「可以」來批准。'
REASK_PROMPT ==
    <<"u76ee", "u524d", "u6709", "u7b49", "u5f85", "u60a8", "u78ba", "u8a8d", "u7684",
    "u64cd", "u4f5c", "uff1a", "u662f", "u5426", "u5141", "u8a31", "u67e5", "u8a62",
    "u6f2b", "u904a", "u65b9", "u6848", "u6216", "u7522", "u751f", "u63a8", "u85a6",
    "uff1f", "u8acb", "u56de", "u8986", "u300c", "u597d", "u300d", "u6216", "u300c",
    "u53ef", "u4ee5", "u300d", "u4f86", "u6279", "u51c6", "u3002">>
\* part_003:145, the prompt of a turn that suspends: '需要您的確認才能繼續：是否允許我查詢漫遊方案或產生推薦？請回覆「好」或「可以」來批准。'
APPROVAL_PROMPT ==
    <<"u9700", "u8981", "u60a8", "u7684", "u78ba", "u8a8d", "u624d", "u80fd", "u7e7c",
    "u7e8c", "uff1a", "u662f", "u5426", "u5141", "u8a31", "u6211", "u67e5", "u8a62",
    "u6f2b", "u904a", "u65b9", "u6848", "u6216", "u7522", "u751f", "u63a8", "u85a6",
    "uff1f", "u8acb", "u56de", "u8986", "u300c", "u597d", "u300d", "u6216", "u300c",
    "u53ef", "u4ee5", "u300d", "u4f86", "u6279", "u51c6", "u3002">>
\* part_003:159, the apology of the catch block: '抱歉，系統目前無法處理您的請求。請稍後再試。'
ERROR_REPLY ==
    <<"u62b1", "u6b49", "uff0c", "u7cfb", "u7d71", "u76ee", "u524d", "u7121", "u6cd5",
    "u8655", "u7406", "u60a8", "u7684", "u8acb", "u6c42", "u3002", "u8acb", "u7a0d",
    "u5f8c", "u518d", "u8a66", "u3002">>
\* part_003:86: 是 對 好 ok OK 可以 請 繼續 要 需要 批准 同意 沒錯
approvalKeywords ==
    << <<"u662f">>,
       <<"u5c0d">>,
       <<"u597d">>,
       <<"o", "k">>,
       <<"O", "K">>,
       <<"u53ef", "u4ee5">>,
       <<"u8acb">>,
       <<"u7e7c", "u7e8c">>,
       <<"u8981">>,
       <<"u9700", "u8981">>,
       <<"u6279", "u51c6">>,
       <<"u540c", "u610f">>,
       <<"u6c92", "u932f">> >>
\* part_003:221-225: 日本 韓國 美國 英國 法國 德國 義大利 西班牙 泰國 新加坡 馬來西亞 香港 澳門 中國 澳洲 紐西蘭 加拿大 越南 印尼
countryKeywords ==
    << <<"u65e5", "u672c">>,
       <<"u97d3", "u570b">>,
       <<"u7f8e", "u570b">>,
       <<"u82f1", "u570b">>,
       <<"u6cd5", "u570b">>,
       <<"u5fb7", "u570b">>,
       <<"u7fa9", "u5927", "u5229">>,
       <<"u897f", "u73ed", "u7259">>,
       <<"u6cf0", "u570b">>,
       <<"u65b0", "u52a0", "u5761">>,
       <<"u99ac", "u4f86", "u897f", "u4e9e">>,
       <<"u9999", "u6e2f">>,
       <<"u6fb3", "u9580">>,
       <<"u4e2d", "u570b">>,
       <<"u6fb3", "u6d32">>,
       <<"u7d10", "u897f", "u862d">>,
       <<"u52a0", "u62ff", "u5927">>,
       <<"u8d8a", "u5357">>,
       <<"u5370", "u5c3c">> >>
\* part_003:250: 是 對 沒錯 正確 好 OK 可以 請幫我 麻煩 繼續 要 需要
confirmationKeywords ==
    << <<"u662f">>,
       <<"u5c0d">>,
       <<"u6c92", "u932f">>,
       <<"u6b63", "u78ba">>,
       <<"u597d">>,
       <<"O", "K">>,
       <<"u53ef", "u4ee5">>,
       <<"u8acb", "u5e6b", "u6211">>,
       <<"u9ebb", "u7169">>,
       <<"u7e7c", "u7e8c">>,
       <<"u8981">>,
       <<"u9700", "u8981">> >>

\* The user messages of the model
MSG_HAO == <<"u597d">>  \* '好'
MSG_WAIT == <<"u7b49", "u7b49">>  \* '等等'
MSG_JAPAN == <<"u53bb", "u65e5", "u672c">>  \* '去日本'
MSG_CORRECT == <<"u6b63", "u78ba">>  \* '正確'
MSG_NOT_OK == <<"u4e0d", "u597d">>  \* '不好'
MSG_PLEASE == <<"u8acb">>  \* '請'
MSG_TROUBLE_JAPAN == <<"u9ebb", "u7169", "u67e5", "u65e5", "u672c">>  \* '麻煩查日本'
MSG_KOREA_JAPAN == <<"u97d3", "u570b", "u65e5", "u672c">>  \* '韓國日本'
OUT_PLAN == <<"u63a8", "u85a6", "u65b9", "u6848", "A">>  \* '推薦方案A'
OUT_KOREA == <<"u97d3", "u570b", "u65b9", "u6848">>  \* '韓國方案'

----------------------------------------------------------------------------
(* The session store: src/src/conversation/state.js                        *)
(*                                                                         *)
(* The operators take and give back the store st = [sessions, arrays]: the *)
(* Map and the heap of message arrays.  A session object is a record whose *)
(* field messages is a reference into the heap, because the handler pushes *)
(* onto the array of the object it obtained from getSession while          *)
(* updateSession builds new objects around the same array.                 *)

\* state.js:16  parseInt(process.env.SESSION_TIMEOUT_MINUTES || '30') * 60 * 1000
SESSION_TIMEOUT_MS == 30 * 60 * 1000

\* state.js:117
MAX_MESSAGES == 20

Phases == {"intent-detection", "confirmation", "approval", "data-collection", "recommendation"}

\* a reference for a new array
NewArray(arrs) == CHOOSE a \in 1..(Cardinality(DOMAIN arrs) + 1) : a \notin DOMAIN arrs

\* state.js:29-73  the object createSession builds
NewSession(sessionId, userId, messages, t) ==
    [ sessionId            |-> sessionId,
      userId               |-> userId,
      createdAt            |-> t,
      lastActivityAt       |-> t,
      expiresAt            |-> now' + SESSION_TIMEOUT_MS,   \* Date.now(), read last
      conversationsSession |-> sessionId,
      phase                |-> "intent-detection",
      intent               |-> [ destination  |-> None,
                                 travelDates  |-> [start |-> None, end |-> None],
                                 confirmed    |-> FALSE,
                                 userApproved |-> FALSE,
                                 detectedAt   |-> None,
                                 confirmedAt  |-> None ],
      usageData            |-> None,
      roamingPlans         |-> <<>>,
      recommendation       |-> None,
      messages             |-> messages,
      pendingRunState      |-> None,
      pendingInterruptions |-> <<>> ]

\* state.js:24-78  sessionId is the identifier the conversations service gave
createSession(st, userId, sessionId, t) ==
    LET a == NewArray(st.arrays)
    IN  [ st  |-> [ sessions |-> (sessionId :> NewSession(sessionId, userId, a, t)) @@ st.sessions,
                    arrays   |-> (a :> <<>>) @@ st.arrays ],
          ret |-> sessionId ]

\* getSession that takes a session for expired at expiresAt already
getSessionEvictsEarly(st, sessionId, t) ==
    IF sessionId = 0 \/ sessionId \notin DOMAIN st.sessions
    THEN [st |-> st, ret |-> None]
    ELSE IF t >= st.sessions[sessionId].expiresAt
         THEN [ st  |-> [ sessions |-> [k \in (DOMAIN st.sessions) \ {sessionId} |-> st.sessions[k]],
                          arrays   |-> st.arrays ],
                ret |-> None ]
         ELSE [st |-> st, ret |-> Some(st.sessions[sessionId])]

\* state.js:86-100  sessionId 0 stands for a missing (falsy) identifier
getSession(st, sessionId, t) ==
    IF sessionId = 0 \/ sessionId \notin DOMAIN st.sessions
    THEN [st |-> st, ret |-> None]
    ELSE IF t > st.sessions[sessionId].expiresAt
         THEN [ st  |-> [ sessions |-> [k \in (DOMAIN st.sessions) \ {sessionId} |-> st.sessions[k]],
                          arrays   |-> st.arrays ],
                ret |-> None ]
         ELSE [st |-> st, ret |-> Some(st.sessions[sessionId])]

\* a slice that keeps the oldest entries
SliceFirst(messages, n) == SubSeq(messages, 1, n)

\* state.js:121  messages.slice(-MAX_MESSAGES)
SliceLast(messages, n) == SubSeq(messages, Len(messages) - n + 1, Len(messages))

\* state.js:116-135  updateSession once the session is in hand
mergeUpdates(st, session, ref, updates, t) ==
    LET truncate == Len(st.arrays[ref]) > MAX_MESSAGES
        messages == IF truncate THEN NewArray(st.arrays) ELSE ref
        updatedSession ==
            Spread(Spread(session, updates),
                   [ messages             |-> messages,
                     conversationsSession |-> session.conversationsSession,
                     lastActivityAt       |-> t,
                     expiresAt            |-> now' + SESSION_TIMEOUT_MS ])   \* Date.now(), read last
    IN  [ st  |-> [ sessions |-> [st.sessions EXCEPT ![session.sessionId] = updatedSession],
                    arrays   |-> IF truncate
                                 THEN (messages :> SliceLast(st.arrays[ref], MAX_MESSAGES)) @@ st.arrays
                                 ELSE st.arrays ],
          ret |-> Some(updatedSession) ]

\* state.js:110-118  got is what getSession gave; updates.messages || session.messages
updateFound(got, updates, t) ==
    IF got.ret = None
    THEN [st |-> got.st, ret |-> None]
    ELSE mergeUpdates(got.st, got.ret[1],
                      IF "messages" \in DOMAIN updates THEN updates.messages
                      ELSE got.ret[1].messages,
                      updates, t)

\* updateSession that looks the session up in the Map without the test of
\* expiresAt
updateSessionOfExpired(st, sessionId, updates, t) ==
    updateFound([ st  |-> st,
                  ret |-> IF sessionId \in DOMAIN st.sessions
                          THEN Some(st.sessions[sessionId]) ELSE None ],
                updates, t)

\* state.js:109-136
updateSession(st, sessionId, updates, t) == updateFound(getSession(st, sessionId, t), updates, t)

\* a sweep that deletes a session at its expiresAt already
expiredSessionsEarly(st, t) == {k \in DOMAIN st.sessions : t >= st.sessions[k].expiresAt}

\* state.js:149-154  the sessions the sweep deletes
expiredSessions(st, t) == {k \in DOMAIN st.sessions : t > st.sessions[k].expiresAt}

\* state.js:145-161
cleanupExpiredSessions(st, t) ==
    [ st  |-> [ sessions |-> [k \in (DOMAIN st.sessions) \ expiredSessions(st, t) |-> st.sessions[k]],
                arrays   |-> st.arrays ],
      ret |-> Cardinality(expiredSessions(st, t)) ]

\* state.js:173-182  updateIntent once getSession has answered
intentFound(got, sessionId, intentUpdates, t) ==
    IF got.ret = None
    THEN [st |-> got.st, ret |-> None]
    ELSE updateSession(got.st, sessionId,
                       [intent |-> Spread(got.ret[1].intent, intentUpdates)], t)

\* state.js:170-183
updateIntent(st, sessionId, intentUpdates, t) ==
    intentFound(getSession(st, sessionId, t), sessionId, intentUpdates, t)

\* state.js:200-206
validTransitions ==
    [ p \in Phases |->
        CASE p = "intent-detection" -> {"confirmation"}
          [] p = "confirmation"     -> {"approval", "intent-detection"}
          [] p = "approval"         -> {"data-collection", "confirmation"}
          [] p = "data-collection"  -> {"recommendation"}
          [] p = "recommendation"   -> {} ]

\* state.js:209  validTransitions[currentPhase] || []
allowedTransitions(currentPhase) ==
    IF currentPhase \in DOMAIN validTransitions THEN validTransitions[currentPhase] ELSE {}

\* transitionFound that stores the session again when it refuses the phase
transitionFoundRefreshes(got, sessionId, newPhase, t) ==
    IF got.ret = None
    THEN [st |-> got.st, ret |-> None]
    ELSE IF newPhase \notin allowedTransitions(got.ret[1].phase)
         THEN updateSession(got.st, sessionId, [phase |-> got.ret[1].phase], t)
         ELSE updateSession(got.st, sessionId, [phase |-> newPhase], t)

\* state.js:195-218  transitionPhase once getSession has answered
transitionFound(got, sessionId, newPhase, t) ==
    IF got.ret = None
    THEN [st |-> got.st, ret |-> None]
    ELSE IF newPhase \notin allowedTransitions(got.ret[1].phase)
         THEN [st |-> got.st, ret |-> got.ret]
         ELSE updateSession(got.st, sessionId, [phase |-> newPhase], t)

\* state.js:192-219
transitionPhase(st, sessionId, newPhase, t) ==
    transitionFound(getSession(st, sessionId, t), sessionId, newPhase, t)

\* setPendingRunState that stores the state string alone
setPendingRunStateOnly(st, sessionId, stateString, interruptions, t) ==
    updateSession(st, sessionId, [pendingRunState |-> Some(stateString)], t)

\* state.js:227-232
setPendingRunState(st, sessionId, stateString, interruptions, t) ==
    updateSession(st, sessionId,
                  [pendingRunState |-> Some(stateString), pendingInterruptions |-> interruptions], t)

\* state.js:238-243
clearPendingRunState(st, sessionId, t) ==
    updateSession(st, sessionId, [pendingRunState |-> None, pendingInterruptions |-> <<>>], t)

\* state.js:250-253
getActiveSessionCount(st, t) ==
    [ st  |-> cleanupExpiredSessions(st, t).st,
      ret |-> Cardinality(DOMAIN cleanupExpiredSessions(st, t).st.sessions) ]

----------------------------------------------------------------------------
(* The external reasoning layer (@openai/agents), as the handler sees it.  *)
(* What a run answers is the layer's choice: it is drawn from Outcomes.    *)

\* config.js:125, 135, 142  the gated tools, in the order the instructions prescribe
ToolChain == <<"query_plans", "get_usage", "analyze_and_recommend">>

\* config.js:47  the agent's name: '漫遊客服助理'
AgentName == <<"u6f2b", "u904a", "u5ba2", "u670d", "u52a9", "u7406">>

\* the k-th gated tool call of a run: an interruption item of the run's result
Interruption(k) ==
    [ name      |-> ToolChain[((k - 1) % Len(ToolChain)) + 1],
      agent     |-> [name |-> AgentName],
      arguments |-> "{}",
      callId    |-> k ]

\* the RunState of a run that starts from a user message
FreshRunState(rid) == [rid |-> rid, executed |-> 0, pending |-> <<>>, approved |-> {}]

\* part_003:95, 123  state.approve(interruption)
approve(state, interruption) == [state EXCEPT !.approved = @ \cup {interruption.callId}]

\* part_003:144  state.toString(), and part_003:93  RunState.fromString(agent, string)
toString(state) == [serialized |-> state]
fromString(string) == string.serialized

Outputs == {<<>>, OUT_PLAN, OUT_KOREA}

Outcomes ==
    [kind : {"final"}, output : Outputs, n : {0}]
      \cup [kind : {"interrupt"}, output : {<<>>}, n : 1..MaxCalls]
      \cup [kind : {"throw"}, output : {<<>>}, n : {0}]

\* the calls of a run's pending list that were not approved
unapproved(state) == SelectSeq(state.pending, LAMBDA i : i.callId \notin state.approved)

\* the result of a run that stops on the calls in interruptions (none: it ended)
runResult(state, executed, interruptions, output) ==
    [ interruptions |-> interruptions,
      state         |-> [state EXCEPT !.executed = executed, !.pending = interruptions],
      finalOutput   |-> IF interruptions = <<>> THEN output ELSE <<>> ]

\* the run goes on after executed gated calls: it ends or reports n further calls
runOn(state, executed, outcome) ==
    runResult(state, executed,
              IF outcome.kind = "interrupt"
              THEN [j \in 1..outcome.n |-> Interruption(executed + j)] ELSE <<>>,
              outcome.output)

\* part_003:98, 110, 125  run(agent, input, {session}) when it does not throw: calls
\* left unapproved are reported again; otherwise the approved calls are executed
\* and the layer ends with a final output or reports further calls
run(state, outcome) ==
    IF unapproved(state) # <<>>
    THEN runResult(state, state.executed + Len(state.pending) - Len(unapproved(state)),
                   unapproved(state), <<>>)
    ELSE runOn(state, state.executed + Len(state.pending), outcome)

NoResult == [interruptions |-> <<>>, state |-> FreshRunState(0), finalOutput |-> <<>>]

----------------------------------------------------------------------------
(* The turn handler: src/unnamed/part_003                                  *)

Users == {"u1"}

\* the userId of a request: "" stands for a missing one
UserIdInputs == Users \cup {""}

Messages == {MSG_HAO, MSG_JAPAN, MSG_CORRECT, MSG_TROUBLE_JAPAN}

\* the message of a request: <<>> stands for a missing one
MessageInputs == Messages \cup {<<>>, <<" ">>}

\* isApproval that takes a message as an approval when it is a keyword, not
\* when it contains one
isApprovalWholeMessage(message) == \E j \in 1..Len(approvalKeywords) : message = approvalKeywords[j]

\* part_003:86-87
isApproval(message) == SomeIncluded(approvalKeywords, message)

\* part_003:250-251
isConfirmation(userMessage) == SomeIncluded(confirmationKeywords, userMessage)

\* detectDestination that goes through the list for the message first and
\* looks at the reply only when the message names no country
detectDestinationMessageFirst(userMessage, response) ==
    LET inMessage == {j \in 1..Len(countryKeywords) : Includes(userMessage, countryKeywords[j])}
        inReply == {j \in 1..Len(countryKeywords) : Includes(response, countryKeywords[j])}
    IN  IF inMessage # {}
        THEN countryKeywords[CHOOSE j \in inMessage : \A h \in inMessage : j <= h]
        ELSE IF inReply # {}
        THEN countryKeywords[CHOOSE j \in inReply : \A h \in inReply : j <= h]
        ELSE None

\* part_003:227-234  the first country of the list that the message or the reply contains
detectDestination(userMessage, response) ==
    LET hits == {j \in 1..Len(countryKeywords) :
                    Includes(userMessage, countryKeywords[j]) \/ Includes(response, countryKeywords[j])}
    IN  IF hits = {} THEN None
        ELSE countryKeywords[CHOOSE j \in hits : \A h \in hits : j <= h]

\* analyzeAgentResponse with the test of the confirmation keywords made in
\* intent-detection as well: a message that names a country and confirms is
\* taken as the confirmation of the destination it has just given
analyzeAgentResponseAtOnce(response, session, userMessage, t) ==
    IF session.phase = "intent-detection"
    THEN IF detectDestination(userMessage, response) # None /\ session.intent.destination = None
         THEN [ intent |-> Some([ destination  |-> detectDestination(userMessage, response),
                                  detectedAt   |-> Some(t),
                                  confirmed    |-> isConfirmation(userMessage),
                                  userApproved |-> isConfirmation(userMessage) ]),
                phase  |-> Some("confirmation") ]
         ELSE [intent |-> None, phase |-> None]
    ELSE IF session.phase = "confirmation" /\ isConfirmation(userMessage)
         THEN [ intent |-> Some([ confirmed    |-> TRUE,
                                  confirmedAt  |-> Some(t),
                                  userApproved |-> TRUE ]),
                phase  |-> Some("data-collection") ]
         ELSE [intent |-> None, phase |-> None]

\* part_003:214-263
analyzeAgentResponse(response, session, userMessage, t) ==
    LET detectedCountry == detectDestination(userMessage, response) IN
    IF session.phase = "intent-detection"
    THEN IF detectedCountry # None /\ session.intent.destination = None
         THEN [ intent |-> Some([ destination  |-> detectedCountry,
                                  detectedAt   |-> Some(t),
                                  confirmed    |-> FALSE,
                                  userApproved |-> FALSE ]),
                phase  |-> Some("confirmation") ]
         ELSE [intent |-> None, phase |-> None]
    ELSE IF session.phase = "confirmation" /\ isConfirmation(userMessage)
         THEN [ intent |-> Some([ confirmed    |-> TRUE,
                                  confirmedAt  |-> Some(t),
                                  userApproved |-> TRUE ]),
                phase  |-> Some("data-collection") ]
         ELSE [intent |-> None, phase |-> None]

\* part_003:138-143
simplify(interruptions) ==
    [j \in 1..Len(interruptions) |->
        [ name      |-> interruptions[j].name,
          agentName |-> interruptions[j].agent.name,
          arguments |-> interruptions[j].arguments,
          original  |-> interruptions[j] ]]

\* part_003:94-96, 122-124  approve every item of a list, in order
RECURSIVE approveAll(_, _)
approveAll(state, items) ==
    IF items = <<>> THEN state ELSE approveAll(approve(state, Head(items)), Tail(items))

\* DataOf that leaves the plans out
DataOfNoPlans(updatedSession) ==
    LET e == [k \in {} |-> None] IN
    Spread(Spread(
        IF updatedSession.intent.destination # None THEN [intent |-> updatedSession.intent] ELSE e,
        IF updatedSession.usageData # None THEN [usage |-> updatedSession.usageData] ELSE e),
        IF updatedSession.recommendation # None
            THEN [recommendation |-> updatedSession.recommendation] ELSE e)

\* part_003:192-198  the data of the reply: a key is present only when its value is
DataOf(updatedSession) ==
    LET e == [k \in {} |-> None] IN
    Spread(Spread(Spread(
        IF updatedSession.intent.destination # None THEN [intent |-> updatedSession.intent] ELSE e,
        IF updatedSession.usageData # None THEN [usage |-> updatedSession.usageData] ELSE e),
        IF Len(updatedSession.roamingPlans) > 0 THEN [plans |-> updatedSession.roamingPlans] ELSE e),
        IF updatedSession.recommendation # None
            THEN [recommendation |-> updatedSession.recommendation] ELSE e)

\* what a request gave back: a reply (part_003:188-199) or the error it threw
Reply(updatedSession, response) ==
    [ kind |-> "reply", error |-> "",
      sessionId |-> updatedSession.sessionId, response |-> response,
      phase |-> updatedSession.phase, data |-> DataOf(updatedSession) ]
Thrown(error) ==
    [ kind |-> "error", error |-> error,
      sessionId |-> 0, response |-> <<>>, phase |-> "", data |-> [k \in {} |-> None] ]
NoReply == [ kind |-> "none", error |-> "",
             sessionId |-> 0, response |-> <<>>, phase |-> "", data |-> [k \in {} |-> None] ]

\* part_003:70-76, 174-180  session.messages.push(...)
push(st, ref, role, content, t) ==
    [st EXCEPT !.arrays[ref] = Append(@, [role |-> role, content |-> content, timestamp |-> t])]

\* applyIntent without the call of updateIntent
applyIntentNever(st, session, stateUpdates, t) == st

\* part_003:165-167
applyIntent(st, session, stateUpdates, t) ==
    IF stateUpdates.intent # None
    THEN updateIntent(st, session.sessionId, stateUpdates.intent[1], t).st
    ELSE st

\* part_003:169-171
applyPhase(st, session, stateUpdates, t) ==
    IF stateUpdates.phase # None
    THEN transitionPhase(st, session.sessionId, stateUpdates.phase[1], t).st
    ELSE st

\* part_003:188-199  upd is what the last updateSession gave
respond(upd, assistantResponse) ==
    [ st  |-> upd.st,
      ret |-> IF upd.ret = None
              THEN Thrown("TypeError")     \* updatedSession.sessionId of null
              ELSE Reply(upd.ret[1], assistantResponse) ]

\* persistTurn that writes back the pending run state, when there is one, of
\* the session object the handler got when the request arrived
persistTurnStale(st, session, stateUpdates, assistantResponse, t) ==
    respond(updateSession(push(applyPhase(applyIntent(st, session, stateUpdates, t),
                                          session, stateUpdates, t),
                               session.messages, "assistant", assistantResponse, t),
                          session.sessionId,
                          IF session.pendingRunState = None
                          THEN [messages |-> session.messages]
                          ELSE [ messages             |-> session.messages,
                                 pendingRunState      |-> session.pendingRunState,
                                 pendingInterruptions |-> session.pendingInterruptions ], t),
            assistantResponse)

\* persistTurn that stores the session object the handler got when the
\* request arrived, with the log, in place of the log alone
persistTurnWholeObject(st, session, stateUpdates, assistantResponse, t) ==
    respond(updateSession(push(applyPhase(applyIntent(st, session, stateUpdates, t),
                                          session, stateUpdates, t),
                               session.messages, "assistant", assistantResponse, t),
                          session.sessionId,
                          [ messages             |-> session.messages,
                            phase                |-> session.phase,
                            intent               |-> session.intent,
                            pendingRunState      |-> session.pendingRunState,
                            pendingInterruptions |-> session.pendingInterruptions ], t),
            assistantResponse)

\* persistTurn that stores the reply as the session's recommendation as well
persistTurnStoresPlan(st, session, stateUpdates, assistantResponse, t) ==
    respond(updateSession(push(applyPhase(applyIntent(st, session, stateUpdates, t),
                                          session, stateUpdates, t),
                               session.messages, "assistant", assistantResponse, t),
                          session.sessionId,
                          [ messages       |-> session.messages,
                            recommendation |-> Some(assistantResponse) ], t),
            assistantResponse)

\* part_003:165-199
persistTurn(st, session, stateUpdates, assistantResponse, t) ==
    respond(updateSession(push(applyPhase(applyIntent(st, session, stateUpdates, t),
                                          session, stateUpdates, t),
                               session.messages, "assistant", assistantResponse, t),
                          session.sessionId, [messages |-> session.messages], t),
            assistantResponse)

\* part_003:162-199  the end of every turn that got past the agent handle
finishTurn(st, session, userMessage, assistantResponse, t) ==
    persistTurn(st, session, analyzeAgentResponse(assistantResponse, session, userMessage, t),
                assistantResponse, t)

----------------------------------------------------------------------------
(* The steps of handleChatRequest.  One request is handled at a time; a    *)
(* step runs from one await on the external layer to the next.             *)

Store == [sessions |-> sessions, arrays |-> arrays]

IdleTask ==
    [ pc                |-> "idle",
      message           |-> <<>>,
      session           |-> None,       \* the object getSession gave at the start
      isApprovalMessage |-> FALSE,
      state             |-> FreshRunState(0),   \* the RunState given to the run awaited
      assistantResponse |-> <<>> ]

NoObs ==
    [ logBefore  |-> <<>>,   \* the session's log when the request arrived
      fromString |-> None,   \* the string given to RunState.fromString
      approved   |-> <<>>,   \* the items approve() was called with, in order
      runs       |-> <<>>,   \* the inputs run() was called with, in order
      results    |-> <<>>,   \* what the runs that returned gave, in order
      threw      |-> FALSE,  \* the external layer threw inside the try block
      creates    |-> FALSE ] \* getAgent found no handle and called createRoamingAgent

\* the external layer threw
Threw == [obs EXCEPT !.threw = TRUE]

\* a run returned r
Got(r) == [obs EXCEPT !.results = Append(@, r)]

\* the turn has ended with end = [st, ret]
FinishWith(t, obsNow, end, assistantResponse) ==
    /\ sessions' = end.st.sessions
    /\ arrays' = end.st.arrays
    /\ result' = end.ret
    /\ task' = [t EXCEPT !.pc = "done", !.assistantResponse = assistantResponse]
    /\ obs' = obsNow

\* part_003:162-203  the turn ends with the reply assistantResponse
Finish(t, obsNow, st, assistantResponse) ==
    FinishWith(t, obsNow, finishTurn(st, t.session[1], t.message, assistantResponse, now),
               assistantResponse)

\* part_003:34-40, 55-62  the request throws before a session is in hand
Reject(st, error) ==
    /\ sessions' = st.sessions
    /\ arrays' = st.arrays
    /\ result' = Thrown(error)
    /\ task' = [IdleTask EXCEPT !.pc = "done"]
    /\ obs' = NoObs

\* part_003:69-81  the user message is pushed and the agent handle awaited
Accept(st, session, message) ==
    /\ sessions' = st.sessions
    /\ arrays' = [st.arrays EXCEPT ![session.messages] =
                     Append(@, [role |-> "user", content |-> message, timestamp |-> now])]
    /\ result' = NoReply
    /\ task' = [IdleTask EXCEPT !.pc = "agent", !.message = message, !.session = Some(session)]
    /\ obs' = [NoObs EXCEPT !.logBefore = st.arrays[session.messages],
                            !.creates = (agentInstance = None)]

\* part_003:65-66  createSession, then getSession of the new identifier
createAndGet(made, t) == getSession(made.st, made.ret, t)

\* part_003:51-67  created tells whether the conversations service gave an
\* identifier for the new session (state.js:27); newId is that identifier
lookup(st, userId, sessionId, created, newId, t) ==
    IF sessionId # 0 THEN getSession(st, sessionId, t)
    ELSE IF created THEN createAndGet(createSession(st, userId, newId, t), t)
    ELSE [st |-> st, ret |-> None]

\* BeginWith without the test of session.userId at part_003:62
BeginWithAnyUser(got, userId, message, sessionId) ==
    IF got.ret = None
    THEN Reject(got.st, IF sessionId # 0 THEN "not found" ELSE "createSession failed")
    ELSE Accept(got.st, got.ret[1], message)

\* part_003:55-76  got is the session looked up or created
BeginWith(got, userId, message, sessionId) ==
    IF got.ret = None
    THEN Reject(got.st, IF sessionId # 0 THEN "not found" ELSE "createSession failed")
    ELSE IF got.ret[1].userId # userId
    THEN Reject(got.st, "forbidden")
    ELSE Accept(got.st, got.ret[1], message)

\* Arrive with the session looked up or created before the fields are tested
ArriveValidatesLate(userId, message, sessionId, created, newId) ==
    IF userId = ""
    THEN Reject(lookup(Store, "u1", sessionId, created, newId, now).st, "missing userId")
    ELSE IF message = <<>> \/ Len(Trim(message)) = 0
    THEN Reject(lookup(Store, userId, sessionId, created, newId, now).st, "missing message")
    ELSE BeginWith(lookup(Store, userId, sessionId, created, newId, now),
                   userId, message, sessionId)

\* part_003:32-81  handleChatRequest from its call to its first await or
\* throw; newId is the identifier a new session would get
Arrive(userId, message, sessionId, created, newId) ==
    IF userId = ""
    THEN Reject(Store, "missing userId")
    ELSE IF message = <<>> \/ Len(Trim(message)) = 0
    THEN Reject(Store, "missing message")
    ELSE BeginWith(lookup(Store, userId, sessionId, created, newId, now),
                   userId, message, sessionId)

\* part_003:32-81  a request arrives
Begin(userId, message, sessionId, created) ==
    /\ task.pc \in {"idle", "done"}
    /\ turns < MaxTurns
    /\ turns' = turns + 1
    /\ UNCHANGED <<now, agentInstance, call, never, rateLimitStore, res, waiting>>
    /\ Arrive(userId, message, sessionId, created, turns + 1)

\* Enter without the test of session.pendingRunState at part_003:90 when the
\* message is no approval: the message starts a run
EnterRunsAnyway(t) ==
    IF t.session[1].pendingRunState # None /\ t.isApprovalMessage
    THEN /\ task' = [t EXCEPT !.pc = "restore"]
         /\ obs' = [obs EXCEPT !.fromString = t.session[1].pendingRunState]
         /\ UNCHANGED <<sessions, arrays, result>>
    ELSE /\ task' = [t EXCEPT !.pc = "run", !.state = FreshRunState(turns)]
         /\ obs' = [obs EXCEPT !.runs = Append(@, [input |-> "message",
                                                    state |-> FreshRunState(turns)])]
         /\ UNCHANGED <<sessions, arrays, result>>

\* part_003:85-110  the handler runs from the agent handle to its first await
\* inside the try block, or to the end of the turn
Enter(t) ==
    IF t.session[1].pendingRunState # None
    THEN IF t.isApprovalMessage
         THEN /\ task' = [t EXCEPT !.pc = "restore"]
              /\ obs' = [obs EXCEPT !.fromString = t.session[1].pendingRunState]
              /\ UNCHANGED <<sessions, arrays, result>>
         ELSE Finish(t, obs, Store, REASK_PROMPT)
    ELSE /\ task' = [t EXCEPT !.pc = "run", !.state = FreshRunState(turns)]
         /\ obs' = [obs EXCEPT !.runs = Append(@, [input |-> "message",
                                                    state |-> FreshRunState(turns)])]
         /\ UNCHANGED <<sessions, arrays, result>>

\* part_003:15-21, 81-87  getAgent() returns; built tells whether
\* createRoamingAgent succeeded when the handle had to be built
AgentReady(built) ==
    /\ task.pc = "agent"
    /\ UNCHANGED <<now, turns, call, never, rateLimitStore, res, waiting>>
    /\ IF obs.creates /\ ~built
       THEN /\ UNCHANGED <<sessions, arrays, agentInstance, obs>>
            /\ result' = Thrown("createRoamingAgent failed")
            /\ task' = [task EXCEPT !.pc = "done"]
       ELSE /\ agentInstance' = Some("agent")
            /\ Enter([task EXCEPT !.isApprovalMessage = isApproval(task.message),
                                  !.assistantResponse = DEFAULT_REPLY])

\* originals that stops after the first stored call
originalsFirstOnly(session) ==
    SubSeq([j \in 1..Len(session.pendingInterruptions) |->
               session.pendingInterruptions[j].original], 1, 1)

\* part_003:94-96  the items the handler approves on the restored state
originals(session) ==
    SelectSeq([j \in 1..Len(session.pendingInterruptions) |->
                  session.pendingInterruptions[j].original],
              LAMBDA i : TRUE)

\* part_003:94-98  restored is the state with the approvals; cleared is what
\* clearPendingRunState gave; the resumed run is awaited
ResumeWith(restored, cleared, approvedItems) ==
    /\ sessions' = cleared.st.sessions
    /\ arrays' = cleared.st.arrays
    /\ task' = [task EXCEPT !.pc = "resume", !.state = restored]
    /\ obs' = [obs EXCEPT !.approved = @ \o approvedItems,
                          !.runs = Append(@, [input |-> "state", state |-> restored])]
    /\ UNCHANGED result

\* Restored without the catch at part_003:157-160: the error leaves the handler
RestoredRethrows(ok) ==
    /\ task.pc = "restore"
    /\ UNCHANGED <<now, turns, agentInstance, sessions, arrays, call, never, rateLimitStore, res, waiting>>
    /\ IF ~ok
       THEN /\ result' = Thrown("fromString failed")
            /\ task' = [task EXCEPT !.pc = "done"]
            /\ obs' = Threw
       ELSE /\ result' = NoReply
            /\ task' = [task EXCEPT !.pc = "done"]
            /\ obs' = obs

\* part_003:93-98  RunState.fromString returns or throws
Restored(ok) ==
    /\ task.pc = "restore"
    /\ UNCHANGED <<now, turns, agentInstance, call, never, rateLimitStore, res, waiting>>
    /\ IF ~ok
       THEN Finish(task, Threw, Store, ERROR_REPLY)
       ELSE ResumeWith(approveAll(fromString(task.session[1].pendingRunState[1]),
                                  originals(task.session[1])),
                       clearPendingRunState(Store, task.session[1].sessionId, now),
                       originals(task.session[1]))

\* part_003:99, 135, 148  finalOutput || assistantResponse
outputOr(finalOutput, assistantResponse) ==
    IF finalOutput # <<>> THEN finalOutput ELSE assistantResponse

\* the external layer may answer a run of state with outcome
MayAnswer(state, outcome) ==
    outcome.kind = "interrupt" => state.executed + Len(state.pending) + outcome.n <= MaxCalls

\* part_003:98-104  the resumed run returns or throws
Resumed(outcome) ==
    /\ task.pc = "resume"
    /\ MayAnswer(task.state, outcome)
    /\ UNCHANGED <<now, turns, agentInstance, call, never, rateLimitStore, res, waiting>>
    /\ IF outcome.kind = "throw"
       THEN Finish(task, Threw, Store, ERROR_REPLY)
       ELSE Finish(task, Got(run(task.state, outcome)), Store,
                   outputOr(run(task.state, outcome).finalOutput, task.assistantResponse))

\* part_003:122-125  every interruption is approved and the run invoked again
Reinvoke(approved, currentResult) ==
    /\ task' = [task EXCEPT !.pc = "rerun", !.state = approved]
    /\ obs' = [obs EXCEPT !.approved = @ \o currentResult.interruptions,
                          !.runs = Append(@, [input |-> "state", state |-> approved]),
                          !.results = Append(@, currentResult)]
    /\ UNCHANGED <<sessions, arrays, result>>

\* part_003:138-145  the turn suspends
Suspend(currentResult) ==
    Finish(task, Got(currentResult),
           setPendingRunState(Store, task.session[1].sessionId, toString(currentResult.state),
                              simplify(currentResult.interruptions), now).st,
           APPROVAL_PROMPT)

\* Inspect with an if in place of the while at part_003:120: the pending calls
\* of the first result are approved, those of a later result are stored
InspectApprovesOnce(currentResult, first) ==
    IF currentResult.interruptions # <<>> /\ task.isApprovalMessage /\ first
    THEN Reinvoke(approveAll(currentResult.state, currentResult.interruptions), currentResult)
    ELSE IF currentResult.interruptions # <<>>
    THEN Suspend(currentResult)
    ELSE Finish(task, Got(currentResult), Store,
                outputOr(currentResult.finalOutput, task.assistantResponse))

\* Inspect with a cap on the while at part_003:120: after two results the
\* loop is left with whatever the last run gave
InspectCapped(currentResult, first) ==
    IF currentResult.interruptions # <<>> /\ (task.isApprovalMessage \/ ~first)
                                          /\ Len(obs.results) < 2
    THEN Reinvoke(approveAll(currentResult.state, currentResult.interruptions), currentResult)
    ELSE IF currentResult.interruptions # <<>> /\ first
    THEN Suspend(currentResult)
    ELSE Finish(task, Got(currentResult), Store,
                outputOr(currentResult.finalOutput, task.assistantResponse))

\* Inspect without the test of isApprovalMessage at part_003:115
InspectApprovesAlways(currentResult, first) ==
    IF currentResult.interruptions # <<>>
    THEN Reinvoke(approveAll(currentResult.state, currentResult.interruptions), currentResult)
    ELSE Finish(task, Got(currentResult), Store,
                outputOr(currentResult.finalOutput, task.assistantResponse))

\* part_003:113-154  what the handler does with the result of a run that started
\* from the message: the first result, and each result of the approval loop
Inspect(currentResult, first) ==
    IF currentResult.interruptions # <<>> /\ (task.isApprovalMessage \/ ~first)
    THEN Reinvoke(approveAll(currentResult.state, currentResult.interruptions), currentResult)
    ELSE IF currentResult.interruptions # <<>>
    THEN Suspend(currentResult)
    ELSE Finish(task, Got(currentResult), Store,
                outputOr(currentResult.finalOutput, task.assistantResponse))

\* part_003:110-154  run(agent, message) returns or throws
RunReturned(outcome) ==
    /\ task.pc = "run"
    /\ MayAnswer(task.state, outcome)
    /\ UNCHANGED <<now, turns, agentInstance, call, never, rateLimitStore, res, waiting>>
    /\ IF outcome.kind = "throw"
       THEN Finish(task, Threw, Store, ERROR_REPLY)
       ELSE Inspect(run(task.state, outcome), TRUE)

\* part_003:120-135  a run of the approval loop returns or throws
ReRunReturned(outcome) ==
    /\ task.pc = "rerun"
    /\ MayAnswer(task.state, outcome)
    /\ UNCHANGED <<now, turns, agentInstance, call, never, rateLimitStore, res, waiting>>
    /\ IF outcome.kind = "throw"
       THEN Finish(task, Threw, Store, ERROR_REPLY)
       ELSE Inspect(run(task.state, outcome), FALSE)

\* no call has been made on the store
NoCall == [op |-> "none", sessionId |-> 0, arg |-> "", ret |-> None]

\* the store no sweep has run on: empty at the start as well
NoNever == [sessions |-> [k \in {} |-> None], ret |-> None]

\* res before any request has passed the rate limiting middleware
NoResponse ==
    [ sessionId |-> <<>>, ip |-> <<>>, key |-> <<>>, at |-> 0, before |-> None,
      allowed |-> TRUE, retryAfter |-> None ]

\* no second request
NoWaiting == [task |-> IdleTask, obs |-> NoObs, result |-> NoReply]

Init ==
    /\ sessions = [k \in {} |-> None]
    /\ arrays = [k \in {} |-> <<>>]
    /\ now = 0
    /\ agentInstance = None
    /\ task = IdleTask
    /\ obs = NoObs
    /\ result = NoReply
    /\ turns = 0
    /\ call = NoCall
    /\ never = NoNever
    /\ rateLimitStore = [k \in {} |-> None]
    /\ res = NoResponse
    /\ waiting = NoWaiting

Next ==
    \/ \E userId \in UserIdInputs, message \in MessageInputs, sessionId \in 0..MaxTurns,
          created \in BOOLEAN : Begin(userId, message, sessionId, created)
    \/ \E built \in BOOLEAN : AgentReady(built)
    \/ \E ok \in BOOLEAN : Restored(ok)
    \/ \E outcome \in Outcomes : Resumed(outcome)
    \/ \E outcome \in Outcomes : RunReturned(outcome)
    \/ \E outcome \in Outcomes : ReRunReturned(outcome)

Spec == Init /\ [][Next]_vars

----------------------------------------------------------------------------
(* The session store under its callers and the clock.  Every exported      *)
(* function of state.js is called with the arguments its callers give it:  *)
(* transitionPhase with any phase name, updateIntent with a destination,   *)
(* setPendingRunState with a state string and its calls.                   *)

\* the clock advances by a millisecond or by the session timeout
TickSteps == {1, SESSION_TIMEOUT_MS}
Ticks == (now \div SESSION_TIMEOUT_MS) + (now % SESSION_TIMEOUT_MS)

\* the identifiers the conversations service gives to new sessions, and the
\* identifiers callers pass: those, and a missing one
SessionIds == {1}
SessionIdInputs == SessionIds \cup {0}

\* the phase names a caller passes to transitionPhase
PhaseInputs == Phases \cup {"done"}

\* a run that stops on its first gated call
FirstCall == [kind |-> "interrupt", output |-> <<>>, n |-> 1]

\* the milliseconds the clock may advance between the first and the last read
\* of it in one call of the store (state.js:30-32, 130-131)
Lags == {0, 1}

\* what a call that returns a number gave, as the record of a call keeps it
Returned(end) == [st |-> end.st, ret |-> Some([value |-> end.ret])]

\* the store on which no sweep has run
Unswept == [sessions |-> never.sessions, arrays |-> arrays]

\* the store is left as end.st and the call recorded; the clock advanced by
\* lag while the call ran; other is what the same call does on Unswept
Called(op, sessionId, arg, end, other, lag) ==
    /\ lag > 0 => Ticks < MaxTicks
    /\ now' = now + lag
    /\ sessions' = end.st.sessions
    /\ arrays' = end.st.arrays
    /\ call' = [op |-> op, sessionId |-> sessionId, arg |-> arg, ret |-> end.ret]
    /\ never' = [sessions |-> other.st.sessions, ret |-> other.ret]
    /\ UNCHANGED <<agentInstance, task, obs, result, rateLimitStore, res, waiting>>

Tick(d) ==
    /\ Ticks < MaxTicks
    /\ now' = now + d
    /\ UNCHANGED <<sessions, arrays, agentInstance, task, obs, result, turns, call, never, rateLimitStore, res, waiting>>

CallCreateSession(userId, lag) ==
    /\ turns + 1 \in SessionIds
    /\ turns' = turns + 1
    /\ Called("createSession", turns + 1, userId,
              Returned(createSession(Store, userId, turns + 1, now)),
              Returned(createSession(Unswept, userId, turns + 1, now)), lag)

CallGetSession(sessionId) ==
    /\ UNCHANGED turns
    /\ Called("getSession", sessionId, "",
              getSession(Store, sessionId, now), getSession(Unswept, sessionId, now), 0)

\* a partial update that tries to set the activity timestamps
UpdateInputs == {[lastActivityAt |-> -1, expiresAt |-> -1]}

CallUpdateSession(sessionId, updates, lag) ==
    /\ UNCHANGED turns
    /\ Called("updateSession", sessionId, "",
              updateSession(Store, sessionId, updates, now),
              updateSession(Unswept, sessionId, updates, now), lag)

CallUpdateIntent(sessionId, destination, lag) ==
    /\ UNCHANGED turns
    /\ Called("updateIntent", sessionId, destination,
              updateIntent(Store, sessionId, [destination |-> Some(destination)], now),
              updateIntent(Unswept, sessionId, [destination |-> Some(destination)], now), lag)

CallTransitionPhase(sessionId, newPhase, lag) ==
    /\ UNCHANGED turns
    /\ Called("transitionPhase", sessionId, newPhase,
              transitionPhase(Store, sessionId, newPhase, now),
              transitionPhase(Unswept, sessionId, newPhase, now), lag)

\* the state string and the calls of a run that stopped on its first call
FirstState(sessionId) == toString(runOn(FreshRunState(sessionId), 0, FirstCall).state)
FirstCalls(sessionId) == simplify(runOn(FreshRunState(sessionId), 0, FirstCall).interruptions)

CallSetPendingRunState(sessionId, lag) ==
    /\ UNCHANGED turns
    /\ Called("setPendingRunState", sessionId, "",
              setPendingRunState(Store, sessionId, FirstState(sessionId),
                                 FirstCalls(sessionId), now),
              setPendingRunState(Unswept, sessionId, FirstState(sessionId),
                                 FirstCalls(sessionId), now), lag)

CallClearPendingRunState(sessionId, lag) ==
    /\ UNCHANGED turns
    /\ Called("clearPendingRunState", sessionId, "",
              clearPendingRunState(Store, sessionId, now),
              clearPendingRunState(Unswept, sessionId, now), lag)

\* the sweep runs on the store; the store without sweeps stays as it is
CallCleanupExpiredSessions ==
    /\ UNCHANGED turns
    /\ Called("cleanupExpiredSessions", 0, "", Returned(cleanupExpiredSessions(Store, now)),
              [st |-> Unswept, ret |-> None], 0)

NextStore ==
    \/ \E d \in TickSteps : Tick(d)
    \/ \E userId \in Users, lag \in Lags : CallCreateSession(userId, lag)
    \/ \E sessionId \in SessionIdInputs : CallGetSession(sessionId)
    \/ \E sessionId \in SessionIdInputs, updates \in UpdateInputs, lag \in Lags :
          CallUpdateSession(sessionId, updates, lag)
    \/ \E sessionId \in SessionIdInputs, lag \in Lags :
          CallUpdateIntent(sessionId, countryKeywords[1], lag)
    \/ \E sessionId \in SessionIdInputs, newPhase \in PhaseInputs, lag \in Lags :
          CallTransitionPhase(sessionId, newPhase, lag)
    \/ \E sessionId \in SessionIdInputs, lag \in Lags : CallSetPendingRunState(sessionId, lag)
    \/ \E sessionId \in SessionIdInputs, lag \in Lags : CallClearPendingRunState(sessionId, lag)
    \/ CallCleanupExpiredSessions

SpecStore == Init /\ [][NextStore]_vars

----------------------------------------------------------------------------
(* The message log of one session under its writers.  A caller holds the   *)
(* session object that getSession gave it (task.session), pushes messages  *)
(* onto that object's array as the handler does (part_003:70-76, 174-180), *)
(* and calls updateSession with the array (part_003:183-185) or with other *)
(* fields.  A millisecond passes with every message.                       *)

\* the session object the caller holds
Held == task.session[1]

\* the arrays that the stored sessions or the object obj refer to: the others
\* are garbage
Live(st, obj) ==
    [a \in {st.sessions[k].messages : k \in DOMAIN st.sessions}
           \cup {obj[j].messages : j \in 1..Len(obj)} |-> st.arrays[a]]

\* the caller holds the session object got
LogHold(got) ==
    /\ UNCHANGED <<now, agentInstance, obs, result>>
    /\ sessions' = got.st.sessions
    /\ arrays' = Live(got.st, got.ret)
    /\ task' = [IdleTask EXCEPT !.pc = "agent", !.session = got.ret]

\* createSession, then getSession (part_003:65-66)
LogCreate ==
    /\ turns = 0
    /\ turns' = 1
    /\ call' = [NoCall EXCEPT !.op = "createSession", !.sessionId = 1]
    /\ UNCHANGED <<never, rateLimitStore, res, waiting>>
    /\ LogHold(createAndGet(createSession(Store, "u1", 1, now), now))

\* getSession at the start of a turn (part_003:55)
LogGet ==
    /\ turns = 1
    /\ task.pc = "done"
    /\ UNCHANGED turns
    /\ call' = [NoCall EXCEPT !.op = "getSession", !.sessionId = 1]
    /\ UNCHANGED <<never, rateLimitStore, res, waiting>>
    /\ LogHold(getSession(Store, 1, now))

\* session.messages.push (part_003:70-76, 174-180): user and assistant in turn
LogPush ==
    /\ task.pc = "agent"
    /\ now < MaxPushes
    /\ now' = now + 1
    /\ arrays' = push(Store, Held.messages, IF now % 2 = 0 THEN "user" ELSE "assistant",
                      MSG_HAO, now).arrays
    /\ call' = [NoCall EXCEPT !.op = "push", !.sessionId = 1]
    /\ UNCHANGED <<never, rateLimitStore, res, waiting>>
    /\ UNCHANGED <<sessions, agentInstance, task, obs, result, turns>>

\* an update that passes no messages: clearPendingRunState (part_003:97)
LogUpdateOther ==
    /\ task.pc = "agent"
    /\ UNCHANGED <<turns, now, agentInstance, task, obs, result, never, rateLimitStore, res, waiting>>
    /\ sessions' = clearPendingRunState(Store, Held.sessionId, now).st.sessions
    /\ arrays' = clearPendingRunState(Store, Held.sessionId, now).st.arrays
    /\ call' = [ op |-> "clearPendingRunState", sessionId |-> Held.sessionId, arg |-> "",
                 ret |-> clearPendingRunState(Store, Held.sessionId, now).ret ]

\* updateSession(session.sessionId, {messages: session.messages}) at the end
\* of a turn (part_003:183-185)
LogUpdate ==
    /\ task.pc = "agent"
    /\ UNCHANGED <<turns, now, agentInstance, obs, result, never, rateLimitStore, res, waiting>>
    /\ sessions' = updateSession(Store, Held.sessionId, [messages |-> Held.messages], now).st.sessions
    /\ arrays' = updateSession(Store, Held.sessionId, [messages |-> Held.messages], now).st.arrays
    /\ call' = [ op |-> "updateSession", sessionId |-> Held.sessionId, arg |-> "messages",
                 ret |-> updateSession(Store, Held.sessionId, [messages |-> Held.messages], now).ret ]
    /\ task' = [task EXCEPT !.pc = "done"]

NextLog ==
    \/ LogCreate
    \/ LogGet
    \/ LogPush
    \/ LogUpdateOther
    \/ LogUpdate

SpecLog == Init /\ [][NextLog]_vars

----------------------------------------------------------------------------
(* Properties of a turn.  Before is the session object the handler got     *)
(* when the request arrived; After is what the store holds for it.         *)

Before == task.session[1]
After == sessions[Before.sessionId]
LogOf(session) == arrays[session.messages]

\* the request in flight has a session; its turn ended with a reply
InTurn == task.session # None
TurnDone == InTurn /\ task.pc = "done" /\ result.kind = "reply"

\* the message of the request in flight contains an approval keyword
ApprovalMessage == SomeIncluded(approvalKeywords, task.message)

\* the session had a pendingApproval when the request arrived
WasPending == Before.pendingRunState # None

\* the name and call of every entry of a pendingInterruptions list
CallsOf(pendingInterruptions) ==
    [j \in 1..Len(pendingInterruptions) |-> pendingInterruptions[j].original]

\* C1: at every point of a turn whose message contains no approval keyword,
\* approve() has been called on no call, no state string has been restored and
\* run() has been given nothing but the message: a call is approved, and a
\* suspended run resumed, only in a turn whose message is an approval.
C1_ApprovedOnlyOnApproval ==
    (InTurn /\ ~ApprovalMessage) =>
        /\ obs.approved = <<>>
        /\ obs.fromString = None
        /\ \A j \in 1..Len(obs.runs) : obs.runs[j].input = "message"

\* a turn without approval has ended, its run having reported pending calls
C1_Witness ==
    /\ TurnDone /\ ~ApprovalMessage
    /\ Len(obs.results) = 1 /\ obs.results[1].interruptions # <<>>
    /\ obs.approved = <<>>

\* C2: a turn on a session without pendingApproval, whose message is no approval
\* and whose run reported n >= 1 pending calls, ends with the approval prompt as
\* its reply and with the store holding the string of the run's state and
\* exactly the n calls the run reported, in order.
C2_SuspendStoresRun ==
    (TurnDone /\ ~WasPending /\ ~ApprovalMessage
        /\ obs.results # <<>> /\ obs.results[1].interruptions # <<>>) =>
        /\ result.response = APPROVAL_PROMPT
        /\ After.pendingRunState = Some(toString(obs.results[1].state))
        /\ Len(After.pendingInterruptions) = Len(obs.results[1].interruptions)
        /\ CallsOf(After.pendingInterruptions) = obs.results[1].interruptions
        /\ \A j \in 1..Len(After.pendingInterruptions) :
              /\ After.pendingInterruptions[j].name = obs.results[1].interruptions[j].name
              /\ After.pendingInterruptions[j].arguments = obs.results[1].interruptions[j].arguments

\* Scenario C: the run reported two pending calls
C2_Witness ==
    /\ TurnDone /\ ~WasPending /\ ~ApprovalMessage
    /\ obs.results # <<>> /\ Len(obs.results[1].interruptions) = 2
    /\ Len(After.pendingInterruptions) = 2
    /\ result.response = APPROVAL_PROMPT

\* the result of the last run of the turn that returned
LastResult == obs.results[Len(obs.results)]

\* a turn on a session with a pendingApproval, its message an approval, has
\* ended without the external layer having thrown
ResumeDone == TurnDone /\ WasPending /\ ApprovalMessage /\ ~obs.threw

C4_ResumedRunInspected ==
    ResumeDone =>
        /\ LastResult.interruptions = <<>>
        /\ result.response = outputOr(LastResult.finalOutput, DEFAULT_REPLY)

\* a turn on a session with a pendingApproval whose message is no approval
RePrompted == TurnDone /\ WasPending /\ ~ApprovalMessage

\* C5: in a turn on a session with a pendingApproval whose message is no
\* approval, no run is started or resumed and no state string restored at any
\* point, and the turn ends with the re-ask prompt as its reply and with the
\* stored state string and pending calls the session had when it began.
C5_NoApprovalKeepsPending ==
    /\ (InTurn /\ WasPending /\ ~ApprovalMessage) =>
          /\ obs.runs = <<>> /\ obs.results = <<>>
          /\ obs.fromString = None /\ obs.approved = <<>>
          /\ task.pc \in {"agent", "done"}
    /\ RePrompted =>
          /\ result.response = REASK_PROMPT
          /\ After.pendingRunState = Before.pendingRunState
          /\ After.pendingInterruptions = Before.pendingInterruptions

\* a session suspended on two calls was sent a message that is no approval
C5_Witness ==
    /\ RePrompted
    /\ Len(Before.pendingInterruptions) = 2
    /\ Len(After.pendingInterruptions) = 2
    /\ result.response = REASK_PROMPT
    /\ obs.runs = <<>>

\* the fields of a session that neither the log, the clock nor the step-5
\* heuristics write
Rest(session) ==
    [ sessionId            |-> session.sessionId,
      userId               |-> session.userId,
      createdAt            |-> session.createdAt,
      conversationsSession |-> session.conversationsSession,
      usageData            |-> session.usageData,
      roamingPlans         |-> session.roamingPlans,
      recommendation       |-> session.recommendation,
      messages             |-> session.messages,
      pendingRunState      |-> session.pendingRunState,
      pendingInterruptions |-> session.pendingInterruptions ]

\* the country a turn's message names, and whether it has a confirmation keyword
Named == detectDestination(task.message, result.response)
Confirming == SomeIncluded(confirmationKeywords, task.message)

C7_PendingKeptOnFailure ==
    (InTurn /\ task.pc = "done" /\ WasPending /\ obs.threw) =>
        /\ After.pendingRunState = Before.pendingRunState
        /\ After.pendingInterruptions = Before.pendingInterruptions

\* C8: a turn in which the external layer threw inside the try block (run,
\* resumed run or RunState.fromString) ends with a reply payload, not an error,
\* whose response is the fixed apology, and with the log extended by the user
\* message followed by the apology.
C8_FailureSwallowed ==
    (InTurn /\ task.pc = "done" /\ obs.threw) =>
        /\ result.kind = "reply"
        /\ result.error = ""
        /\ result.response = ERROR_REPLY
        /\ result.sessionId = Before.sessionId
        /\ LogOf(After) = obs.logBefore \o
              << [role |-> "user", content |-> task.message, timestamp |-> now],
                 [role |-> "assistant", content |-> ERROR_REPLY, timestamp |-> now] >>

\* RunState.fromString threw in a turn that was to resume a suspended run
C8_Witness ==
    /\ InTurn /\ task.pc = "done" /\ obs.threw
    /\ WasPending /\ obs.runs = <<>> /\ obs.fromString # None
    /\ result.response = ERROR_REPLY

\* C10: a turn on a session in phase confirmation whose message contains a
\* confirmation keyword ends with phase data-collection and with confirmed and
\* userApproved true.
C10_ConfirmationAdvances ==
    (TurnDone /\ Before.phase = "confirmation" /\ Confirming) =>
        /\ After.phase = "data-collection"
        /\ After.intent.confirmed
        /\ After.intent.userApproved

\* the transition table of the specification
TransitionTable ==
    [ p \in Phases |->
        CASE p = "intent-detection" -> {"confirmation"}
          [] p = "confirmation"     -> {"approval", "intent-detection"}
          [] p = "approval"         -> {"data-collection", "confirmation"}
          [] p = "data-collection"  -> {"recommendation"}
          [] p = "recommendation"   -> {} ]

\* in this step transitionPhase was called on the live session id with a phase
\* the table does not allow from the session's phase
Refused(id) ==
    /\ call'.op = "transitionPhase" /\ call'.sessionId = id
    /\ now <= sessions[id].expiresAt
    /\ call'.arg \notin TransitionTable[sessions[id].phase]

\* C9: in every step of the store, a session whose phase changes goes to a
\* phase the table allows from the phase it had, and a call of transitionPhase
\* on a live session with a phase the table does not allow returns the session
\* (it does not throw) and leaves every field of it, expiresAt and
\* lastActivityAt included, as it was.
C9_PhaseFollowsTable ==
    [][ \A id \in DOMAIN sessions :
          /\ (id \in DOMAIN sessions' /\ sessions'[id].phase # sessions[id].phase)
                => sessions'[id].phase \in TransitionTable[sessions[id].phase]
          /\ Refused(id)
                => /\ id \in DOMAIN sessions'
                   /\ sessions'[id] = sessions[id]
                   /\ call'.ret = Some(sessions[id]) ]_vars

\* transitionPhase was refused on a session that had been updated earlier than
\* the call, after the session had moved through the table to data-collection
C9_Witness ==
    /\ call.op = "transitionPhase" /\ call.sessionId \in DOMAIN sessions
    /\ call.arg = "confirmation"
    /\ call.ret = Some(sessions[call.sessionId])
    /\ sessions[call.sessionId].phase = "data-collection"
    /\ sessions[call.sessionId].lastActivityAt < now
    /\ now <= sessions[call.sessionId].expiresAt

\* the phases a session can be in once its intent is confirmed, if the
\* workflow goes on after the confirmation
PastConfirmation == {"approval", "data-collection", "recommendation"}

\* no stored session is past phase confirmation
StuckAtConfirmation ==
    \A id \in DOMAIN sessions : sessions[id].phase \in {"intent-detection", "confirmation"}

\* C11: the workflow goes on to its end: a session whose destination was
\* detected and whose intent a turn has confirmed has left phase confirmation
\* for the phases that lead to recommendation.
C11_WorkflowGoesOn ==
    \A id \in DOMAIN sessions :
        (task.pc = "done" /\ sessions[id].intent.confirmed)
            => sessions[id].phase \in PastConfirmation

\* the log the store holds for session 1
StoredLog == arrays[sessions[1].messages]

\* C12: every call of updateSession, with the caller's array or with other
\* fields only, leaves the stored log with at most 20 entries: the array it
\* was given (the caller's, or the stored one when no messages are passed) when
\* that has at most 20 entries, and otherwise exactly its last 20 entries in
\* their order.
C12_LogKeepsLast20 ==
    [][ /\ LogUpdate =>
              /\ Len(StoredLog') <= 20
              /\ StoredLog' = IF Len(arrays[Held.messages]) > 20
                              THEN SubSeq(arrays[Held.messages],
                                          Len(arrays[Held.messages]) - 19,
                                          Len(arrays[Held.messages]))
                              ELSE arrays[Held.messages]
        /\ LogUpdateOther =>
              /\ Len(StoredLog') <= 20
              /\ StoredLog' = IF Len(StoredLog) > 20
                              THEN SubSeq(StoredLog, Len(StoredLog) - 19, Len(StoredLog))
                              ELSE StoredLog ]_vars

\* updateSession was given an array of 23 messages: the store holds the last
\* 20, the oldest of them being the fourth message pushed
C12_Witness ==
    /\ call.op = "updateSession" /\ task.session # None
    /\ Len(arrays[Held.messages]) = 23
    /\ Len(StoredLog) = 20
    /\ StoredLog[1].timestamp = 3 /\ StoredLog[20].timestamp = 22

\* a partial update that names lastActivityAt and expiresAt does not set them:
\* the session returned carries the clock's values
TimestampsNotOverridden ==
    (call.op = "updateSession" /\ call.ret # None) =>
        /\ call.ret[1].lastActivityAt >= 0
        /\ call.ret[1].expiresAt >= SESSION_TIMEOUT_MS
        /\ sessions[call.sessionId].lastActivityAt >= 0

\* C13: in every state of the store, every session's expiresAt is its
\* lastActivityAt plus the session timeout, exactly.
C13_ExpiresAtIsActivityPlusTTL ==
    \A id \in DOMAIN sessions :
        sessions[id].expiresAt - sessions[id].lastActivityAt = SESSION_TIMEOUT_MS

\* the store holds session id and the clock is not past its expiresAt
Alive(id) == id \in DOMAIN sessions /\ now <= sessions[id].expiresAt

\* C14: every call of getSession returns the stored session exactly when the
\* store holds one under the identifier and the clock is not past its
\* expiresAt, and then changes nothing in the store; when the clock is past
\* expiresAt the call itself removes the session and returns absent; no other
\* session is touched.
C14_GetSessionEvictsLazily ==
    [][ \A id \in SessionIdInputs :
          CallGetSession(id) =>
              /\ (call'.ret # None) <=> Alive(id)
              /\ Alive(id) => (call'.ret = Some(sessions[id]) /\ sessions' = sessions)
              /\ (id \in DOMAIN sessions /\ ~Alive(id)) => id \notin DOMAIN sessions'
              /\ \A k \in DOMAIN sessions \ {id} :
                    k \in DOMAIN sessions' /\ sessions'[k] = sessions[k] ]_vars

\* getSession found the session at the very millisecond of its expiresAt
GetSessionAtExpiry ==
    /\ call.op = "getSession" /\ call.ret # None
    /\ call.ret[1].expiresAt = now
    /\ sessions[call.sessionId].expiresAt = now

\* getSession removed a session past its expiresAt, the sweep not having run
C14_Witness ==
    /\ call.op = "getSession" /\ call.sessionId = 1 /\ call.ret = None
    /\ turns = 1 /\ 1 \notin DOMAIN sessions

\* this step is a call of updateSession, updateIntent, transitionPhase,
\* setPendingRunState or clearPendingRunState with the identifier id
WritesTo(id) ==
    \E lag \in Lags :
        \/ \E updates \in UpdateInputs : CallUpdateSession(id, updates, lag)
        \/ CallUpdateIntent(id, countryKeywords[1], lag)
        \/ \E newPhase \in PhaseInputs : CallTransitionPhase(id, newPhase, lag)
        \/ CallSetPendingRunState(id, lag)
        \/ CallClearPendingRunState(id, lag)

\* C15: a call of updateSession, updateIntent, transitionPhase,
\* setPendingRunState or clearPendingRunState with an identifier that is
\* unknown or whose session is past expiresAt returns absent, adds no session
\* and changes no field of any session (the expired session is removed); a
\* session past expiresAt is never changed afterwards, so that every session a
\* get or an update returns was not past expiresAt when the call was made.
C15_UpdateOfDeadIsNoOp ==
    [][ \A id \in SessionIdInputs :
          /\ (~Alive(id) /\ WritesTo(id)) =>
                /\ call'.ret = None
                /\ id \notin DOMAIN sessions'
                /\ DOMAIN sessions' \subseteq DOMAIN sessions
                /\ \A k \in DOMAIN sessions' : sessions'[k] = sessions[k]
          /\ (~Alive(id) /\ call'.ret # None) => ~(WritesTo(id) \/ CallGetSession(id))
          /\ (id \in DOMAIN sessions /\ ~Alive(id)) =>
                /\ now' >= now
                /\ id \in DOMAIN sessions' => sessions'[id] = sessions[id] ]_vars

\* updateIntent was called on a session that had been created and is past its
\* expiresAt: it returned absent and the store holds no session
C15_Witness ==
    /\ call.op = "updateIntent" /\ call.sessionId = 1 /\ call.ret = None
    /\ turns = 1 /\ sessions = [k \in {} |-> None]
    /\ now > SESSION_TIMEOUT_MS

\* the sessions of a Map that are not past expiresAt at time t
LiveOf(map, t) == [k \in {j \in DOMAIN map : t <= map[j].expiresAt} |-> map[k]]

\* C16: whatever createSession, getSession and the updates return is the same
\* on the store the sweep runs on at arbitrary points and on the store it never
\* runs on, given the same calls and the same clock; the two stores hold the
\* same sessions not past expiresAt; and a sweep removes exactly the sessions
\* past expiresAt and returns their number.
C16_SweepNeverNeeded ==
    [][ /\ call'.op # "cleanupExpiredSessions" => call'.ret = never'.ret
        /\ LiveOf(sessions', now') = LiveOf(never'.sessions, now')
        /\ CallCleanupExpiredSessions =>
              /\ sessions' = LiveOf(sessions, now)
              /\ call'.ret = Some([value |-> Cardinality(DOMAIN sessions \ DOMAIN LiveOf(sessions, now))]) ]_vars

\* the sweep has removed a session past expiresAt that the store without
\* sweeps still holds
C16_Witness ==
    /\ call.op = "cleanupExpiredSessions" /\ call.ret = Some([value |-> 1])
    /\ 1 \in DOMAIN never.sessions /\ 1 \notin DOMAIN sessions
    /\ now > never.sessions[1].expiresAt

-----------------------------------------------------------------------------
(* The rate limiting middleware of /api/chat: src/unnamed/part_000:210-284  *)

RATE_LIMIT_REQUESTS == 10
RATE_LIMIT_WINDOW_MS == 60 * 1000

\* Math.ceil(n / d)
Ceil(n, d) == -((-n) \div d)

\* part_000:256  req.body?.sessionId || req.ip : <<>> is a sessionId that is
\* missing or the empty string
keyOf(sessionId, ip) == IF sessionId # <<>> THEN sessionId ELSE ip

\* rateLimitStore.get(key)
recordOf(store, key) == IF key \in DOMAIN store THEN Some(store[key]) ELSE None

\* windowOf without the test of resetAt: a window never rolls over
windowOfNeverRolls(store, key, t) ==
    IF key \notin DOMAIN store
    THEN [count |-> 0, resetAt |-> t + RATE_LIMIT_WINDOW_MS]
    ELSE store[key]

\* part_000:259-265  the record the request is counted in
windowOf(store, key, t) ==
    IF key \notin DOMAIN store \/ t > store[key].resetAt
    THEN [count |-> 0, resetAt |-> t + RATE_LIMIT_WINDOW_MS]
    ELSE store[key]

\* part_000:267  record.count++
counted(record) == [record EXCEPT !.count = @ + 1]

\* setRecord on one record shared by all keys
setRecordShared(store, key, record) ==
    [k \in (DOMAIN store) \cup {key} |-> record]

\* part_000:268  rateLimitStore.set(key, record)
setRecord(store, key, record) ==
    [k \in (DOMAIN store) \cup {key} |-> IF k = key THEN record ELSE store[k]]

\* part_000:271-281  the 429 answer and its retryAfter, or next()
answerOf(record, t) ==
    IF record.count > RATE_LIMIT_REQUESTS
    THEN [allowed |-> FALSE, retryAfter |-> Some(Ceil(record.resetAt - t, 1000))]
    ELSE [allowed |-> TRUE, retryAfter |-> None]

\* part_000:255-284  the middleware on a request that arrives at t
rateLimit(store, sessionId, ip, t) ==
    [ store  |-> setRecord(store, keyOf(sessionId, ip),
                           counted(windowOf(store, keyOf(sessionId, ip), t))),
      answer |-> answerOf(counted(windowOf(store, keyOf(sessionId, ip), t)), t) ]

\* what res records of the request and of the middleware's answer to it
responseOf(store, sessionId, ip, t) ==
    [ sessionId  |-> sessionId,
      ip         |-> ip,
      key        |-> keyOf(sessionId, ip),
      at         |-> t,
      before     |-> recordOf(store, keyOf(sessionId, ip)),
      allowed    |-> rateLimit(store, sessionId, ip, t).answer.allowed,
      retryAfter |-> rateLimit(store, sessionId, ip, t).answer.retryAfter ]

-----------------------------------------------------------------------------
(* The rate limiter under requests and the clock.  The clock advances by a *)
(* millisecond or by a millisecond less than the window, so that requests  *)
(* arrive just before, exactly at and just after resetAt.                  *)

MaxCount == 12
MaxLimitTicks == 3

LimitTickSteps == {1, RATE_LIMIT_WINDOW_MS - 1}
LimitTicks == (now \div (RATE_LIMIT_WINDOW_MS - 1)) + (now % (RATE_LIMIT_WINDOW_MS - 1))

\* the caller addresses, and the sessionId of a request: none, a session's,
\* or a text that is also a caller's address
Addresses == {<<"a">>}
LimitSessionIds == {<<>>, <<"s">>, <<"a">>}

LimitTick(d) ==
    /\ LimitTicks < MaxLimitTicks
    /\ now' = now + d
    /\ UNCHANGED <<sessions, arrays, agentInstance, task, obs, result, turns, call, never,
                   rateLimitStore, res, waiting>>

\* a request to /api/chat passes the middleware
Limit(sessionId, ip) ==
    /\ windowOf(rateLimitStore, keyOf(sessionId, ip), now).count < MaxCount
    /\ rateLimitStore' = rateLimit(rateLimitStore, sessionId, ip, now).store
    /\ res' = responseOf(rateLimitStore, sessionId, ip, now)
    /\ UNCHANGED <<sessions, arrays, now, agentInstance, task, obs, result, turns, call, never, waiting>>

NextLimit ==
    \/ \E d \in LimitTickSteps : LimitTick(d)
    \/ \E sessionId \in LimitSessionIds, ip \in Addresses : Limit(sessionId, ip)

SpecLimit == Init /\ [][NextLimit]_vars

-----------------------------------------------------------------------------
(* Properties of the rate limiter.  Counted is the record the last request *)
(* was counted in; res.before is the record its key had when it arrived.   *)

Requested == res.key # <<>>
Counted == rateLimitStore[res.key]
SameWindow == res.before # None /\ res.at <= res.before[1].resetAt

\* C17: the requests of a window are numbered from 1 in the order they
\* arrive; the first RATE_LIMIT_REQUESTS of them are allowed, every later one
\* is rejected with a retryAfter of at most the window length in seconds,
\* and the first request that arrives after resetAt is allowed and starts a
\* new window of RATE_LIMIT_WINDOW_MS
C17_FixedWindow ==
    Requested =>
        /\ IF SameWindow
           THEN /\ Counted.count = res.before[1].count + 1
                /\ Counted.resetAt = res.before[1].resetAt
           ELSE /\ Counted.count = 1
                /\ Counted.resetAt = res.at + RATE_LIMIT_WINDOW_MS
                /\ res.allowed
        /\ Counted.count <= RATE_LIMIT_REQUESTS => res.allowed /\ res.retryAfter = None
        /\ Counted.count > RATE_LIMIT_REQUESTS =>
              /\ ~res.allowed
              /\ res.retryAfter # None
              /\ res.retryAfter[1] * 1000 <= RATE_LIMIT_WINDOW_MS

\* the first request after the rollover of a window that had rejected
\* requests beyond the (N+1)th
C17_Witness ==
    /\ Requested
    /\ res.before # None
    /\ res.before[1].count > RATE_LIMIT_REQUESTS + 1
    /\ res.at > res.before[1].resetAt
    /\ res.allowed
    /\ Counted.count = 1

\* C18: every rejection carries a retryAfter that is strictly positive and at
\* most 60, whenever in the window the rejected request arrives, its end
\* resetAt included
C18_RetryAfterPositive ==
    Requested /\ ~res.allowed =>
        /\ res.retryAfter # None
        /\ res.retryAfter[1] > 0
        /\ res.retryAfter[1] <= 60

\* a rejection tells the caller to retry after no time at all only when the
\* request arrived exactly at resetAt, and a request at that time is still
\* counted in the old window
RetryAfterZeroAtResetAt ==
    Requested /\ ~res.allowed =>
        /\ res.retryAfter[1] \in 0..60
        /\ res.retryAfter[1] = 0 <=> res.at = Counted.resetAt

\* the keys requests can have, and the times at which a later request under
\* a key is answered
LimitKeys == {keyOf(sessionId, ip) : sessionId \in LimitSessionIds, ip \in Addresses}
LaterTimes == {now, now + 1, now + RATE_LIMIT_WINDOW_MS, now + RATE_LIMIT_WINDOW_MS + 1}

\* the key of a request is its sessionId when it has one, else the address
KeyIsSessionIdOrAddress ==
    Requested => res.key = (IF res.sessionId # <<>> THEN res.sessionId ELSE res.ip)

\* a request leaves the record of every key other than its own as it was,
\* and with it the answer to a request under that key at any later time
OtherKeysUntouched ==
    \A k \in LimitKeys \ {res'.key} :
        /\ recordOf(rateLimitStore', k) = recordOf(rateLimitStore, k)
        /\ \A t \in LaterTimes :
              rateLimit(rateLimitStore', k, k, t).answer = rateLimit(rateLimitStore, k, k, t).answer

\* C19: a request is counted under its sessionId when it has one and under
\* the caller's address otherwise, and it changes neither the count, nor the
\* window, nor the answer to later requests of any other key
C19_PerKey == [](KeyIsSessionIdOrAddress) /\ [][OtherKeysUntouched]_vars

\* a request under a session's key is rejected while the address key, with
\* requests of its own, is within its limit
C19_Witness ==
    /\ Requested
    /\ res.key = <<"s">>
    /\ res.sessionId = <<"s">>
    /\ ~res.allowed
    /\ <<"a">> \in DOMAIN rateLimitStore
    /\ rateLimitStore[<<"a">>].count \in 1..RATE_LIMIT_REQUESTS

-----------------------------------------------------------------------------
(* The endpoint POST /api/chat: the rate limiting middleware                *)
(* (part_000:255-284), then the route of src/src/api/chat.js:29-58, which   *)
(* awaits handleChatRequest and turns what it throws into a status.         *)

ERR_MISSING == <<"u7f3a", "u5c11", "u5fc5", "u586b", "u6b04", "u4f4d">>  \* '缺少必填欄位'
ERR_NOT_FOUND == <<"u4e0d", "u5b58", "u5728", "u6216", "u5df2", "u904e", "u671f">>  \* '不存在或已過期'
ERR_NOT_OWNER == <<"u4e0d", "u5c6c", "u65bc", "u6b64", "u4f7f", "u7528", "u8005">>  \* '不屬於此使用者'
TXT_SESSION == <<"u6703", "u8a71">>  \* '會話'

\* the text of the identifier of session n, and the session a text names
\* (-1: none that the conversations service ever gave)
idText(n) == [i \in 1..n |-> "s"]
idOf(text) ==
    IF text = <<>> THEN 0
    ELSE IF \A i \in 1..Len(text) : text[i] = "s" THEN Len(text)
    ELSE -1

\* the message of the Error thrown: part_003:35, 39, 58, 63; the text of an
\* error of the runtime or of the external layer stands for itself
messageOf(error, sessionId) ==
    CASE error = "missing userId" -> ERR_MISSING \o <<"uff1a", "u", "s", "e", "r", "I", "d">>
      [] error = "missing message" -> ERR_MISSING \o <<"uff1a", "m", "e", "s", "s", "a", "g", "e">>
      [] error = "not found" -> TXT_SESSION \o ERR_NOT_FOUND \o <<":", " ">> \o sessionId
      [] error = "forbidden" -> TXT_SESSION \o ERR_NOT_OWNER
      [] OTHER -> <<error>>

\* chat.js:43-57  the status for an error with this message
statusOf(message) ==
    IF Includes(message, ERR_MISSING) THEN 400
    ELSE IF Includes(message, ERR_NOT_FOUND) THEN 404
    ELSE IF Includes(message, ERR_NOT_OWNER) THEN 403
    ELSE 500

\* part_000:277, chat.js:37-57  the status of the answer to the last request
status ==
    IF ~res.allowed THEN 429
    ELSE IF result.kind = "error" THEN statusOf(messageOf(result.error, res.sessionId))
    ELSE 200

\* the userId, message and sessionId of a request, and the caller addresses
ApiUsers == UserIdInputs \cup {"u2"}
ApiMessages == {MSG_CORRECT, MSG_HAO, <<>>}
ID_MISSING == ERR_MISSING
ApiSessionIds == {<<>>, idText(1), ID_MISSING}
ApiOutcomes == {o \in Outcomes : o.kind = "throw" \/ o.output = OUT_PLAN \/ o.n = 1}

\* the requests counted under a key
CountOf(key) == IF key \in DOMAIN rateLimitStore THEN rateLimitStore[key].count ELSE 0

\* the requests that name or ask for a session are counted by turns, as in
\* Spec; those of a caller that repeats the sessionId ID_MISSING, which no
\* session has, are bounded apart, and there are enough of them to pass the
\* limit of its key
MaxRequests == 11
Within(sessionId) ==
    IF sessionId = ID_MISSING THEN CountOf(ID_MISSING) < MaxRequests ELSE turns < MaxTurns
Started(sessionId) == IF sessionId = ID_MISSING THEN turns ELSE turns + 1

\* TooMany without the return at part_000:274: the middleware answers 429 and
\* calls next() all the same, so the route hands the request to the handler
TooManyCallsNext(sessionId, ip) ==
    /\ task.pc \in {"idle", "done"}
    /\ Within(sessionId)
    /\ ~rateLimit(rateLimitStore, sessionId, ip, now).answer.allowed
    /\ rateLimitStore' = rateLimit(rateLimitStore, sessionId, ip, now).store
    /\ res' = responseOf(rateLimitStore, sessionId, ip, now)
    /\ turns' = Started(sessionId)
    /\ UNCHANGED <<now, agentInstance, call, never, waiting>>
    /\ Arrive("u1", MSG_HAO, idOf(sessionId), TRUE, turns + 1)

\* part_000:271-281  the middleware answers 429; the route is not reached
TooMany(sessionId, ip) ==
    /\ task.pc \in {"idle", "done"}
    /\ Within(sessionId)
    /\ ~rateLimit(rateLimitStore, sessionId, ip, now).answer.allowed
    /\ rateLimitStore' = rateLimit(rateLimitStore, sessionId, ip, now).store
    /\ res' = responseOf(rateLimitStore, sessionId, ip, now)
    /\ turns' = Started(sessionId)
    /\ UNCHANGED <<sessions, arrays, now, agentInstance, task, obs, result, call, never, waiting>>

\* part_000:283, chat.js:29-35  next(): the route calls handleChatRequest
Route(userId, message, sessionId, ip, created) ==
    /\ task.pc \in {"idle", "done"}
    /\ Within(sessionId)
    /\ rateLimit(rateLimitStore, sessionId, ip, now).answer.allowed
    /\ rateLimitStore' = rateLimit(rateLimitStore, sessionId, ip, now).store
    /\ res' = responseOf(rateLimitStore, sessionId, ip, now)
    /\ turns' = Started(sessionId)
    /\ UNCHANGED <<now, agentInstance, call, never, waiting>>
    /\ Arrive(userId, message, idOf(sessionId), created, turns + 1)

NextApi ==
    \/ \E sessionId \in ApiSessionIds, ip \in Addresses : TooMany(sessionId, ip)
    \/ \E userId \in ApiUsers, message \in ApiMessages, sessionId \in ApiSessionIds,
          ip \in Addresses, created \in BOOLEAN : Route(userId, message, sessionId, ip, created)
    \/ \E built \in BOOLEAN : AgentReady(built)
    \/ \E ok \in BOOLEAN : Restored(ok)
    \/ \E outcome \in ApiOutcomes : Resumed(outcome)
    \/ \E outcome \in ApiOutcomes : RunReturned(outcome)
    \/ \E outcome \in ApiOutcomes : ReRunReturned(outcome)

SpecApi == Init /\ [][NextApi]_vars

-----------------------------------------------------------------------------
(* Properties of the endpoint *)

\* the last request has its answer
Answered == Requested /\ (~res.allowed \/ task.pc = "done")

\* the status the failure of the last request should have: by the statement
\* that threw (part_003:35, 39, 58, 63) or the middleware that answered
expected ==
    IF ~res.allowed THEN 429
    ELSE IF result.kind # "error" THEN 200
    ELSE IF result.error \in {"missing userId", "missing message"} THEN 400
    ELSE IF result.error = "not found" THEN 404
    ELSE IF result.error = "forbidden" THEN 403
    ELSE 500

\* C20: a request with a missing or empty userId or message is answered 400,
\* one with an unknown or expired sessionId 404, one with the sessionId of
\* another user's session 403, one over the rate limit 429, any other
\* failure 500, and no request gets the status of another kind of failure
C20_StatusByFailure == Answered => status = expected

\* the status is the expected one for every request but one whose unknown
\* sessionId contains the text by which the route recognises a missing field
StatusByFailureUnlessQuoted ==
    Answered /\ ~(result.error = "not found" /\ Includes(res.sessionId, ERR_MISSING))
        => status = expected

-----------------------------------------------------------------------------
(* Properties of the requests that are turned away *)

\* the userId or the message of a request is missing, no string, or blank
Invalid(userId, message) == userId = "" \/ message = <<>> \/ Len(Trim(message)) = 0

\* this step is the arrival of a request with an invalid userId or message
InvalidArrives ==
    \E userId \in UserIdInputs, message \in MessageInputs, sessionId \in 0..MaxTurns,
       created \in BOOLEAN :
        Invalid(userId, message) /\ Begin(userId, message, sessionId, created)

Names(userId, id) ==
    \E message \in ApiMessages \ {<<>>}, ip \in Addresses, created \in BOOLEAN :
        Route(userId, message, idText(id), ip, created)

\* the log of a session of the store
StoredLogOf(id) == arrays[sessions[id].messages]

\* C22: a request that names a live session created by another userId throws
\* the forbidden error with nothing asked of the external layer, and leaves
\* the session, its log included, as it was; a turn is only ever started on a
\* session by the userId that created it, a session's userId never changes,
\* and a session or its log changes only in a step of a turn on that session
C22_OwnerOnly ==
    [][ \A id \in DOMAIN sessions :
          /\ \A userId \in ApiUsers \ {""} :
                /\ (userId # sessions[id].userId /\ Names(userId, id)) =>
                      /\ result'.kind = "error" /\ result'.error = "forbidden"
                      /\ task'.pc = "done" /\ obs' = NoObs
                      /\ agentInstance' = agentInstance
                      /\ sessions' = sessions /\ arrays' = arrays
                /\ (task'.pc = "agent" /\ task.pc # "agent" /\ task'.session[1].sessionId = id
                       /\ Names(userId, id)) => userId = sessions[id].userId
          /\ id \in DOMAIN sessions'
          /\ sessions'[id].userId = sessions[id].userId
          /\ (sessions'[id] # sessions[id] \/ arrays'[sessions'[id].messages] # StoredLogOf(id)) =>
                /\ task'.session # None
                /\ task'.session[1].sessionId = id ]_vars

\* another user answered '好' to the approval prompt of a suspended session
\* and was refused; the session is still suspended
C22_Witness ==
    /\ result.kind = "error" /\ result.error = "forbidden"
    /\ res.sessionId = idText(1)
    /\ 1 \in DOMAIN sessions
    /\ sessions[1].userId = "u1"
    /\ sessions[1].pendingRunState # None


\* a session as createSession leaves it, but for its timestamps
Fresh(session, userId) ==
    /\ session.userId = userId
    /\ session.phase = "intent-detection"
    /\ arrays'[session.messages] = <<>>
    /\ session.intent.destination = None
    /\ ~session.intent.confirmed
    /\ ~session.intent.userApproved
    /\ session.pendingRunState = None
    /\ session.pendingInterruptions = <<>>

\* this step is the arrival of a valid request of userId without sessionId:
\* the handler calls createSession(userId) and then getSession (part_003:65-66)
AsksForSession(userId) ==
    \E message \in Messages, created \in BOOLEAN : Begin(userId, message, 0, created)

\* C23: createSession(userId) always succeeds, and the getSession of the
\* identifier it returned, made right after it, returns a session with that
\* userId, phase intent-detection, an empty log, no destination, confirmed and
\* userApproved false and no pending run state
C23_CreateAlwaysSucceeds ==
    [][ \A userId \in Users :
          AsksForSession(userId) =>
              /\ turns' \in DOMAIN sessions'
              /\ getSession([sessions |-> sessions', arrays |-> arrays'], turns', now').ret # None
              /\ Fresh(sessions'[turns'], userId) ]_vars

\* when the conversations service gives an identifier, the session stored
\* under it by the last createSession is fresh and getSession returns it
CreatedIsFresh ==
    [][ \A userId \in Users, lag \in Lags :
          CallCreateSession(userId, lag) =>
              /\ call'.ret = Some([value |-> turns'])
              /\ getSession([sessions |-> sessions', arrays |-> arrays'], turns', now').ret
                    = Some(sessions'[turns'])
              /\ Fresh(sessions'[turns'], userId) ]_vars

-----------------------------------------------------------------------------
(* The turn handler on sessions that hold data.  Between the turns a       *)
(* caller of updateSession (state.js:109-136) stores usage data, roaming   *)
(* plans or a recommendation in the first session.                         *)

DataUpdates ==
    { [usageData |-> Some("usage")],
      [roamingPlans |-> <<"plan">>],
      [recommendation |-> Some("plan")] }

StoreData(sessionId, updates) ==
    /\ task.pc \in {"idle", "done"}
    /\ sessionId \in DOMAIN sessions
    /\ Spread(sessions[sessionId], updates) # sessions[sessionId]
    /\ UNCHANGED <<now, agentInstance, task, obs, result, turns, call, never, rateLimitStore, res, waiting>>
    /\ sessions' = updateSession(Store, sessionId, updates, now).st.sessions
    /\ arrays' = updateSession(Store, sessionId, updates, now).st.arrays

NextReply ==
    \/ Next
    \/ \E updates \in DataUpdates : StoreData(1, updates)

SpecReply == Init /\ [][NextReply]_vars

\* this step ends a turn with a reply
Replies == task.pc # "done" /\ task'.pc = "done" /\ result'.kind = "reply"

\* C24: the reply of a turn has the sessionId and the phase the store holds
\* for the session after the turn and the response that is the last entry of
\* its log; its data has intent exactly when the session has a destination,
\* usage exactly when it has usage data, plans exactly when it has roaming
\* plans and recommendation exactly when it has one, each with the stored
\* value; building the reply of a session changes nothing in the store
C24_ReplyIsProjection ==
    [][ /\ Replies =>
            LET stored == sessions'[task'.session[1].sessionId]
                log == arrays'[stored.messages]
            IN  /\ result'.sessionId = stored.sessionId
                /\ result'.phase = stored.phase
                /\ log # <<>> /\ log[Len(log)].content = result'.response
                /\ "intent" \in DOMAIN result'.data <=> stored.intent.destination # None
                /\ "usage" \in DOMAIN result'.data <=> stored.usageData # None
                /\ "plans" \in DOMAIN result'.data <=> stored.roamingPlans # <<>>
                /\ "recommendation" \in DOMAIN result'.data <=> stored.recommendation # None
                /\ "intent" \in DOMAIN result'.data => result'.data.intent = stored.intent
                /\ "usage" \in DOMAIN result'.data => result'.data.usage = stored.usageData
                /\ "plans" \in DOMAIN result'.data => result'.data.plans = stored.roamingPlans
                /\ "recommendation" \in DOMAIN result'.data =>
                      result'.data.recommendation = stored.recommendation
        /\ \A id \in DOMAIN sessions :
              respond([st |-> Store, ret |-> Some(sessions[id])], DEFAULT_REPLY).st = Store ]_vars

\* the reply of a turn on a session with a destination, usage data, plans
\* and a recommendation
C24_Witness ==
    /\ TurnDone
    /\ DOMAIN result.data = {"intent", "usage", "plans", "recommendation"}

-----------------------------------------------------------------------------
(* Properties of pendingApproval over the turns of a session *)

\* a turn has ended with a reply after its last run returned
RanToEnd == TurnDone /\ obs.results # <<>> /\ ~obs.threw

\* C25: after a turn whose last run, fresh or resumed, returned, the session
\* has a pendingApproval exactly when that run ended reporting pending calls
C25_PendingIffSuspended ==
    RanToEnd => (After.pendingRunState # None <=> LastResult.interruptions # <<>>)

\* the same for the turns that found no pendingApproval: they start a fresh
\* run
PendingIffSuspendedFresh ==
    (RanToEnd /\ ~WasPending) =>
        (After.pendingRunState # None <=> LastResult.interruptions # <<>>)


\* this step gives session id a pendingApproval it did not have
Appears(id) ==
    /\ id \in DOMAIN sessions'
    /\ sessions[id].pendingRunState = None
    /\ sessions'[id].pendingRunState # None

PendingOnlyBySet ==
    [][ \A id \in DOMAIN sessions :
          Appears(id) => \E lag \in Lags : CallSetPendingRunState(id, lag) ]_vars


----------------------------------------------------------------------------
(* Properties of the approval loop of a fresh run.                          *)

\* the fresh run of a turn whose message is an approval has reported pending
\* calls
ApprovedAtOnce ==
    /\ InTurn /\ ~WasPending /\ ApprovalMessage
    /\ obs.results # <<>> /\ obs.results[1].interruptions # <<>>

\* every item of items is approved in state
AllApproved(items, state) ==
    \A k \in 1..Len(items) : items[k].callId \in state.approved

\* run j of the turn returned pending calls, and run j + 1 was started from the
\* state run j returned with every one of them approved
ApprovedAndReinvoked(j) ==
    /\ Len(obs.runs) > j
    /\ obs.runs[j + 1].input = "state"
    /\ obs.runs[j + 1].state.rid = obs.results[j].state.rid
    /\ obs.runs[j + 1].state.pending = obs.results[j].state.pending
    /\ AllApproved(obs.results[j].interruptions, obs.runs[j + 1].state)

\* C27: in a turn on a session without pendingApproval whose message is an
\* approval and whose fresh run reported pending calls, every result with
\* pending calls is followed by a run started from that result's state with
\* all its pending calls approved; the turn ends, unless the external layer
\* throws, only on a result without pending calls, whose output (the default
\* reply when it has none) is the reply; and at every point of the turn the
\* store holds no pendingApproval for the session and no state string has
\* been restored.
C27_ApprovalLoop ==
    ApprovedAtOnce =>
        /\ After.pendingRunState = None
        /\ After.pendingInterruptions = <<>>
        /\ obs.fromString = None
        /\ obs.runs[1].input = "message"
        /\ \A j \in 1..Len(obs.results) :
              obs.results[j].interruptions # <<>> => ApprovedAndReinvoked(j)
        /\ (TurnDone /\ ~obs.threw) =>
              /\ Len(obs.runs) = Len(obs.results)
              /\ LastResult.interruptions = <<>>
              /\ result.response = outputOr(LastResult.finalOutput, DEFAULT_REPLY)
        /\ (TurnDone /\ obs.threw) => result.response = ERROR_REPLY

\* the loop ran twice: the first and the second result had pending calls, the
\* third ended with an output
C27_Witness ==
    /\ ApprovedAtOnce /\ TurnDone /\ ~obs.threw
    /\ Len(obs.results) = 3
    /\ obs.results[2].interruptions # <<>>
    /\ result.response = OUT_PLAN
    /\ After.pendingRunState = None


\* the steps in which something the handler awaits comes back
Awaited ==
    \/ \E built \in BOOLEAN : AgentReady(built)
    \/ \E ok \in BOOLEAN : Restored(ok)
    \/ \E outcome \in Outcomes : Resumed(outcome)
    \/ \E outcome \in Outcomes : RunReturned(outcome)
    \/ \E outcome \in Outcomes : ReRunReturned(outcome)

\* a request is in the handler, which awaits getAgent, RunState.fromString or
\* a run: exactly the states in which a step of Awaited can be taken, every
\* one of them ending in a result or in a throw
Handling == task.pc \notin {"idle", "done"}

\* Spec in which whatever the handler awaits comes back, with a result or a
\* throw.  This is WF_vars(Awaited) with ENABLED <<Awaited>>_vars written
\* out as Handling.
SpecLive == Spec /\ ([]<>(~Handling) \/ []<><<Awaited>>_vars)

\* the handler is in the approval loop, awaiting a run started from a state
InLoop == task.pc = "rerun"

\* the turn has ended with a reply: the apology when the external layer threw,
\* and otherwise after a result without pending calls
LoopEnded ==
    /\ TurnDone
    /\ IF obs.threw THEN result.response = ERROR_REPLY
                    ELSE obs.results # <<>> /\ LastResult.interruptions = <<>>

\* C28: the approval loop counts nothing.  A turn in the loop ends, with a
\* reply or the apology, once a run reports no pending calls or throws (which
\* the external layer does at last here, MaxCalls bounding the calls of a run);
\* and a step of the loop ends the turn exactly when the run it awaited threw
\* or reported no pending calls: after a result with pending calls, however
\* many came before, the handler awaits the next run.
C28_LoopEndsOnlyWithoutPending ==
    /\ InLoop ~> LoopEnded
    /\ [][ InLoop => (task'.pc = "done" <=> (obs'.threw \/ LastResult'.interruptions = <<>>))
         ]_vars

\* the loop went round as often as the external layer can report a call
C28_Witness ==
    /\ ApprovedAtOnce /\ TurnDone /\ ~obs.threw
    /\ Len(obs.results) = MaxCalls + 1
    /\ \A j \in 1..MaxCalls : obs.results[j].interruptions # <<>>


----------------------------------------------------------------------------
(* Properties of the confirmation of a destination.                         *)

\* the stored intent of session id before the step; a session the step
\* creates had nothing confirmed
ConfirmedBefore(id) == id \in DOMAIN sessions /\ sessions[id].intent.confirmed
ApprovedBefore(id) == id \in DOMAIN sessions /\ sessions[id].intent.userApproved

\* in this step confirmed or userApproved of session id becomes true
Confirms(id) ==
    \/ sessions'[id].intent.confirmed /\ ~ConfirmedBefore(id)
    \/ sessions'[id].intent.userApproved /\ ~ApprovedBefore(id)

\* in this step the phase of session id changes
Moves(id) == id \in DOMAIN sessions /\ sessions'[id].phase # sessions[id].phase

\* a turn on a session in intent-detection has ended, its message naming a
\* country and holding a confirmation keyword
NamedAndConfirmed ==
    /\ TurnDone /\ Before.phase = "intent-detection" /\ Confirming
    /\ detectDestination(task.message, <<>>) # None

\* C29: confirmed and userApproved of a stored session are equal at all times.
\* They become true only in the step that ends a turn on that session, the
\* session having been in phase confirmation when the request arrived and the
\* message holding a confirmation keyword.  A turn on a session in
\* intent-detection whose message names a country and holds a confirmation
\* keyword ends in phase confirmation with a destination recorded and with
\* confirmed and userApproved false.  The phase of a session changes only in
\* the step that ends a turn on it: at most once per turn.
C29_ConfirmedOnlyInConfirmation ==
    /\ [](\A id \in DOMAIN sessions :
              sessions[id].intent.confirmed = sessions[id].intent.userApproved)
    /\ [](NamedAndConfirmed =>
              /\ After.phase = "confirmation"
              /\ After.intent.destination # None
              /\ ~After.intent.confirmed
              /\ ~After.intent.userApproved)
    /\ [][ \A id \in DOMAIN sessions' :
              /\ Confirms(id) =>
                    /\ sessions'[id].intent.confirmed /\ sessions'[id].intent.userApproved
                    /\ task.pc \notin {"idle", "done"} /\ task'.pc = "done"
                    /\ InTurn /\ Before.sessionId = id
                    /\ Before.phase = "confirmation"
                    /\ Confirming
              /\ Moves(id) =>
                    /\ task.pc \notin {"idle", "done"} /\ task'.pc = "done"
                    /\ InTurn /\ Before.sessionId = id
         ]_vars

\* '麻煩查日本' on a new session left the destination recorded and nothing
\* confirmed; the next turn on it, with a confirmation keyword, confirms
C29_Witness ==
    /\ TurnDone /\ Before.phase = "confirmation" /\ Confirming
    /\ obs.logBefore # <<>> /\ obs.logBefore[1].content = MSG_TROUBLE_JAPAN
    /\ Before.intent.destination = countryKeywords[1]
    /\ ~Before.intent.confirmed /\ ~Before.intent.userApproved
    /\ After.intent.confirmed /\ After.intent.userApproved


----------------------------------------------------------------------------
(* Destination detection: part_003:220-247.  SpecDetect is the turn        *)
(* handler with messages and outputs made of the names of the country      *)
(* list, and with a caller of transitionPhase that takes a session in      *)
(* confirmation back to intent-detection, its destination still recorded.  *)

\* '等等', '去韓國', '韓國日本', '去印尼' and '韓中國': no name, the second
\* name, the second before the first, the last, and a name whose last
\* character is shared with the one before
DetectMessages ==
    { MSG_WAIT,
      <<"u53bb">> \o countryKeywords[2],
      MSG_KOREA_JAPAN,
      <<"u53bb">> \o countryKeywords[Len(countryKeywords)],
      <<"u97d3">> \o countryKeywords[14] }

\* no output, '日本' and '韓國方案'
DetectOutputs == {<<>>, countryKeywords[1], OUT_KOREA}

\* state.js:192-219  transitionPhase(sessionId, 'intent-detection') between two
\* turns, which the table allows from confirmation
Redetect(sessionId) ==
    /\ task.pc \in {"idle", "done"}
    /\ sessionId \in DOMAIN sessions
    /\ sessions[sessionId].phase = "confirmation"
    /\ UNCHANGED <<now, agentInstance, task, obs, result, turns, call, never, rateLimitStore, res, waiting>>
    /\ sessions' = transitionPhase(Store, sessionId, "intent-detection", now).st.sessions
    /\ arrays' = transitionPhase(Store, sessionId, "intent-detection", now).st.arrays

NextDetect ==
    \/ \E message \in DetectMessages, sessionId \in 0..MaxTurns :
          Begin("u1", message, sessionId, TRUE)
    \/ AgentReady(TRUE)
    \/ \E output \in DetectOutputs :
          RunReturned([kind |-> "final", output |-> output, n |-> 0])
    \/ \E sessionId \in 1..MaxTurns : Redetect(sessionId)

SpecDetect == Init /\ [][NextDetect]_vars

\* name j of the list occurs in the message or in the reply of the turn
Occurs(j) ==
    \/ Includes(task.message, countryKeywords[j])
    \/ Includes(result.response, countryKeywords[j])

\* name j occurs and no name before it in the list does
FirstByList(j) == Occurs(j) /\ \A i \in 1..(j - 1) : ~Occurs(i)

\* the session of the turn was in intent-detection without a destination
MayRecord == Before.phase = "intent-detection" /\ Before.intent.destination = None

\* C30: at the end of a turn, detectDestination of the message and the reply
\* is absent exactly when no name of the list occurs in either, and is
\* otherwise the name that occurs in one of them and has no occurring name
\* before it in the list, wherever in the texts the names stand.  The turn
\* records that name as the destination when the session was in
\* intent-detection without a destination, and in every other case leaves the
\* destination as it was.
C30_FirstByListOrder ==
    TurnDone =>
        /\ detectDestination(task.message, result.response) = None
              <=> \A j \in 1..Len(countryKeywords) : ~Occurs(j)
        /\ \A j \in 1..Len(countryKeywords) :
              FirstByList(j) =>
                  /\ detectDestination(task.message, result.response) = countryKeywords[j]
                  /\ MayRecord => After.intent.destination = countryKeywords[j]
        /\ (~MayRecord \/ \A j \in 1..Len(countryKeywords) : ~Occurs(j))
              => After.intent.destination = Before.intent.destination

\* '去韓國' answered with '日本': the first name of the list, which stands in
\* the reply, is recorded
C30_Witness ==
    /\ TurnDone /\ MayRecord
    /\ task.message = <<"u53bb">> \o countryKeywords[2]
    /\ result.response = countryKeywords[1]
    /\ After.intent.destination = countryKeywords[1]

\* '韓國日本': the name that stands first in the text is not the one recorded
SecondInTextIsRecorded ==
    /\ TurnDone /\ MayRecord
    /\ task.message = MSG_KOREA_JAPAN /\ result.response = DEFAULT_REPLY
    /\ After.intent.destination = countryKeywords[1]

\* a session back in intent-detection with its destination keeps it when a
\* turn names another country
DestinationIsKept ==
    /\ TurnDone /\ Before.phase = "intent-detection"
    /\ Before.intent.destination = countryKeywords[2]
    /\ Occurs(1)
    /\ After.intent.destination = countryKeywords[2]


----------------------------------------------------------------------------
(* The approval keywords: part_003:85-91.  SpecApprove is the turn handler *)
(* on messages that hold a keyword inside a negation or another phrase.    *)

\* '等等' and 'Ok' hold no keyword; '請' is one; '不好' and '不需要' hold one
\* inside a negation
ApproveMessages ==
    { MSG_WAIT, <<"O", "k">>, MSG_PLEASE, MSG_NOT_OK,
      <<"u4e0d", "u9700", "u8981">> }

NextApprove ==
    \/ \E message \in ApproveMessages, sessionId \in 0..MaxTurns :
          Begin("u1", message, sessionId, TRUE)
    \/ AgentReady(TRUE)
    \/ \E ok \in BOOLEAN : Restored(ok)
    \/ \E outcome \in ApiOutcomes : Resumed(outcome)
    \/ \E outcome \in ApiOutcomes : RunReturned(outcome)
    \/ \E outcome \in ApiOutcomes : ReRunReturned(outcome)

SpecApprove == Init /\ [][NextApprove]_vars

\* keyword j stands somewhere in the message of the request in flight
KeywordAt(j) ==
    \E i \in 1..Len(task.message) :
        /\ i + Len(approvalKeywords[j]) - 1 <= Len(task.message)
        /\ \A k \in 1..Len(approvalKeywords[j]) :
              task.message[i + k - 1] = approvalKeywords[j][k]

HoldsKeyword == \E j \in 1..Len(approvalKeywords) : KeywordAt(j)

\* the handler has passed the test of the keywords
Tested == InTurn /\ task.pc \notin {"idle", "agent"}

\* C31: once the handler has tested the message, isApprovalMessage is true
\* exactly when some approval keyword stands somewhere in the message, as a
\* whole message, inside a phrase or inside a negation alike.  With a
\* pendingApproval on the session such a message restores the stored state
\* string and, unless the external layer throws, resumes the run from it and
\* clears the pendingApproval; a message that holds no keyword restores and
\* approves nothing and leaves the pendingApproval as it was.
C31_ApprovalIsSubstring ==
    Tested =>
        /\ task.isApprovalMessage <=> HoldsKeyword
        /\ isApproval(task.message) <=> HoldsKeyword
        /\ (WasPending /\ HoldsKeyword) => obs.fromString = Before.pendingRunState
        /\ (WasPending /\ HoldsKeyword /\ TurnDone /\ ~obs.threw) =>
              /\ Len(obs.runs) = 1 /\ obs.runs[1].input = "state"
              /\ obs.approved = CallsOf(Before.pendingInterruptions)
              /\ After.pendingRunState = None
        /\ (WasPending /\ ~HoldsKeyword) =>
              /\ obs.fromString = None /\ obs.approved = <<>> /\ obs.runs = <<>>
              /\ After.pendingRunState = Before.pendingRunState

\* '不好' on a session with a pendingApproval resumed the gated calls
C31_Witness ==
    /\ TurnDone /\ WasPending /\ ~obs.threw
    /\ task.message = MSG_NOT_OK
    /\ obs.approved # <<>>
    /\ Len(obs.runs) = 1 /\ obs.runs[1].input = "state"
    /\ After.pendingRunState = None

\* 'Ok' on a session with a pendingApproval is no approval
CaseMatters ==
    /\ TurnDone /\ WasPending
    /\ task.message = <<"O", "k">>
    /\ result.response = REASK_PROMPT


----------------------------------------------------------------------------
(* The log over many turns of one session: part_003:69-76, 173-185.         *)
(* SpecTurns is the turn handler on one session, turn after turn, with a    *)
(* clock that moves by a millisecond at every request, so that the entries  *)
(* of the log differ by their timestamps.                                   *)

\* turns per behaviour of SpecTurns: two more than fill a log of MAX_MESSAGES
MaxLogTurns == 12

\* the first request asks for a new session, the later ones name it, with
\* '去日本' and '好' in turn
NextTurn ==
    /\ task.pc \in {"idle", "done"}
    /\ turns < MaxLogTurns
    /\ turns' = turns + 1
    /\ now' = now + 1
    /\ UNCHANGED <<agentInstance, call, never, rateLimitStore, res, waiting>>
    /\ Arrive("u1", IF turns % 2 = 0 THEN MSG_JAPAN ELSE MSG_HAO,
              IF 1 \in DOMAIN sessions THEN 1 ELSE 0, TRUE, turns + 1)

\* the external layer is free in the first two turns and in the turns that
\* overfill the log; in the turns between, the agent is built and a run ends
\* with an output
FreeTurn == turns <= 2 \/ turns >= MaxLogTurns - 1
MayReturn(outcome) == FreeTurn \/ (outcome.kind = "final" /\ outcome.output = OUT_PLAN)

NextTurns ==
    \/ NextTurn
    \/ \E built \in BOOLEAN : (built \/ FreeTurn) /\ AgentReady(built)
    \/ Restored(TRUE)
    \/ \E outcome \in ApiOutcomes : MayReturn(outcome) /\ Resumed(outcome)
    \/ \E outcome \in ApiOutcomes : MayReturn(outcome) /\ RunReturned(outcome)
    \/ \E outcome \in ApiOutcomes : MayReturn(outcome) /\ ReRunReturned(outcome)

SpecTurns == Init /\ [][NextTurns]_vars


\* entry h of the pairs of the turns so far: the user message of turn
\* (h + 1) \div 2 when h is odd, the reply of turn h \div 2 when h is even
PairRole(h) == IF h % 2 = 1 THEN "user" ELSE "assistant"
PairTime(h) == h \div 2
PairMessage(h) == IF ((h + 1) \div 2) % 2 = 1 THEN MSG_JAPAN ELSE MSG_HAO

\* the number of entries the log has after k turns
PairsKept(k) == IF 2 * k > MAX_MESSAGES THEN MAX_MESSAGES ELSE 2 * k

\* entry i of the log is entry h of the pairs
IsPairEntry(log, i, h) ==
    /\ log[i].role = PairRole(h)
    /\ log[i].timestamp = PairTime(h)
    /\ PairRole(h) = "user" => log[i].content = PairMessage(h)

\* C32: between the turns of a session, the log is the last min(20, 2k)
\* entries of the user/assistant pairs of the k turns made on it, in order:
\* user and assistant alternate, each user entry holds the message of its turn
\* and, after a turn that ended with a reply, the last entry holds that reply.
C32_LogIsPairsOfTurns ==
    (task.pc \in {"idle", "done"} /\ 1 \in DOMAIN sessions) =>
        /\ Len(StoredLog) = PairsKept(turns)
        /\ \A i \in 1..Len(StoredLog) :
              IsPairEntry(StoredLog, i, 2 * turns - PairsKept(turns) + i)
        /\ TurnDone => StoredLog[Len(StoredLog)].content = result.response

\* the last MAX_MESSAGES entries of log
KeptOf(log) == IF Len(log) > MAX_MESSAGES THEN SliceLast(log, MAX_MESSAGES) ELSE log

\* a turn that ended with a reply left the log it found, followed by its
\* message and its reply, cut to the last MAX_MESSAGES entries
PairPerTurn ==
    TurnDone =>
        LogOf(After) =
            KeptOf(obs.logBefore
                     \o << [role |-> "user", content |-> task.message, timestamp |-> now - 1],
                           [role |-> "assistant", content |-> result.response,
                            timestamp |-> now] >>)

\* a turn on a full log ended with a reply
FullLogTurn ==
    /\ TurnDone /\ Len(obs.logBefore) = MAX_MESSAGES
    /\ Len(LogOf(After)) = MAX_MESSAGES
    /\ LogOf(After)[1] = obs.logBefore[3]

\* a request that ended without reply left its message in the log
MessageWithoutReply ==
    /\ task.pc = "done" /\ result.kind # "reply" /\ InTurn
    /\ LogOf(After) = Append(obs.logBefore, [role |-> "user", content |-> task.message,
                                             timestamp |-> now - 1])


----------------------------------------------------------------------------
(* Requests that overlap.  The handler runs without interruption from one   *)
(* await to the next; while a request waits at an await, another may        *)
(* arrive and run.  SpecTwo is the turn handler with two requests in        *)
(* flight on one session: task, obs and result are those of the request     *)
(* that takes the next step, waiting holds the other.                       *)

\* requests per behaviour of SpecTwo: one to suspend a run and two that
\* overlap
MaxOverlap == 3

\* the request in flight and the waiting one
Running == [task |-> task, obs |-> obs, result |-> result]

\* a request is in the handler
InFlight(r) == r.task.pc \notin {"idle", "done"}

\* the event loop turns to the other request
Switch ==
    /\ InFlight(Running) \/ InFlight(waiting)
    /\ task' = waiting.task
    /\ obs' = waiting.obs
    /\ result' = waiting.result
    /\ waiting' = Running
    /\ UNCHANGED <<sessions, arrays, now, agentInstance, turns, call, never, rateLimitStore, res>>

\* part_003:32-81  a request arrives for the one session, or for a new one
\* when there is none yet
Overlap(message) ==
    /\ task.pc \in {"idle", "done"}
    /\ turns < MaxOverlap
    /\ turns' = turns + 1
    /\ UNCHANGED <<now, agentInstance, call, never, rateLimitStore, res, waiting>>
    /\ Arrive("u1", message, IF 1 \in DOMAIN sessions THEN 1 ELSE 0, TRUE, turns + 1)

NextTwo ==
    \/ \E message \in {MSG_JAPAN, MSG_HAO} : Overlap(message)
    \/ Switch
    \/ \E built \in BOOLEAN : AgentReady(built)
    \/ \E ok \in BOOLEAN : Restored(ok)
    \/ \E outcome \in ApiOutcomes : Resumed(outcome)
    \/ \E outcome \in ApiOutcomes : RunReturned(outcome)
    \/ \E outcome \in ApiOutcomes : ReRunReturned(outcome)

SpecTwo == Init /\ [][NextTwo]_vars


\* the step is one of the request in flight, on the session stored as 1
StepOnSession == waiting' = waiting /\ 1 \in DOMAIN sessions /\ InTurn /\ Before.sessionId = 1

\* the step leaves field f of the stored session as it is
Keeps(f) == sessions'[1][f] = sessions[1][f]

\* the step ends the turn with a reply
Ends == task.pc \notin {"idle", "done"} /\ task'.pc = "done" /\ result'.kind = "reply"

\* the step stores a suspended run (part_003:138-145)
Suspends ==
    /\ task.pc = "run" /\ Ends /\ ~task.isApprovalMessage
    /\ obs'.results # <<>> /\ obs'.results[1].interruptions # <<>>

\* the step clears the stored run (part_003:97)
Clears == task.pc = "restore" /\ task'.pc = "resume"

\* what analyzeAgentResponse gives at the end of the turn, from the session
\* object the handler got when the request arrived
UpdatesAtEnd == analyzeAgentResponse(result'.response, Before, task.message, now)

\* C33: every step of a request that overlaps another merges into the session
\* stored at that moment, not into the object the request got when it
\* arrived.  The pending run changes only in a step that suspends or clears
\* one, and then to what that step writes; intent and phase change only at the
\* end of a turn, the intent to the stored intent overridden by the fields the
\* turn writes, the phase to the phase the turn asks for when the table allows
\* it from the stored one; the log is the stored array with the reply
\* appended; every other field stays.  So what one request wrote is kept by
\* the writes of the other, and of two writes to a field the later one stays.
C33_MergeIntoStored ==
    [][ StepOnSession =>
          /\ \A f \in {"sessionId", "userId", "createdAt", "conversationsSession", "messages",
                       "usageData", "roamingPlans", "recommendation"} : Keeps(f)
          /\ IF Suspends
             THEN /\ sessions'[1].pendingRunState = Some(toString(obs'.results[1].state))
                  /\ CallsOf(sessions'[1].pendingInterruptions) = obs'.results[1].interruptions
             ELSE IF Clears
             THEN sessions'[1].pendingRunState = None /\ sessions'[1].pendingInterruptions = <<>>
             ELSE Keeps("pendingRunState") /\ Keeps("pendingInterruptions")
          /\ IF Ends
             THEN /\ sessions'[1].intent =
                        IF UpdatesAtEnd.intent = None THEN sessions[1].intent
                        ELSE Spread(sessions[1].intent, UpdatesAtEnd.intent[1])
                  /\ sessions'[1].phase =
                        IF UpdatesAtEnd.phase # None
                             /\ UpdatesAtEnd.phase[1] \in allowedTransitions(sessions[1].phase)
                        THEN UpdatesAtEnd.phase[1] ELSE sessions[1].phase
                  /\ arrays'[sessions'[1].messages] =
                        Append(arrays[sessions[1].messages],
                               [role |-> "assistant", content |-> result'.response,
                                timestamp |-> now])
             ELSE /\ Keeps("intent") /\ Keeps("phase")
                  /\ task.pc \notin {"idle", "done"} => arrays' = arrays
      ]_vars

\* both requests have ended with a reply
BothDone ==
    /\ TurnDone
    /\ waiting.task.pc = "done" /\ waiting.task.session # None /\ waiting.result.kind = "reply"

\* the two requests overlapped on a session without pending run: each arrived
\* before the reply of the other was in the log.  One suspended its run, the
\* other ended with an output: the stored session holds the suspended run, the
\* destination and both messages and replies.
C33_Witness ==
    /\ BothDone
    /\ ~WasPending /\ waiting.task.session[1].pendingRunState = None
    /\ Len(obs.logBefore) + Len(waiting.obs.logBefore) = 1
    /\ {result.response, waiting.result.response} = {APPROVAL_PROMPT, OUT_PLAN}
    /\ sessions[1].pendingRunState # None
    /\ sessions[1].intent.destination # None
    /\ Len(StoredLog) = 4


\* the number of requests, of the two the model follows, whose getAgent found
\* no handle and invoked createRoamingAgent (part_003:15-18)
Constructions ==
    (IF obs.creates THEN 1 ELSE 0) + (IF waiting.obs.creates THEN 1 ELSE 0)

\* C34: createRoamingAgent is invoked at most once, however the first requests
\* overlap: of two requests the model follows, at most one found no handle and
\* invoked it.
C34_ConstructOnce == Constructions <= 1

\* two first requests, each awaiting its own createRoamingAgent
TwoConstructions ==
    /\ task.pc = "agent" /\ waiting.task.pc = "agent"
    /\ obs.creates /\ waiting.obs.creates
    /\ agentInstance = None

\* one at a time, the handle is built by the first request that gets one and
\* by no later request
BuiltOnceInTurn ==
    [][ /\ agentInstance # None => agentInstance' = agentInstance
        /\ (agentInstance # None /\ waiting' = waiting /\ task'.pc = "agent") => ~obs'.creates
      ]_vars


\* the state string request r restored and resumed a run from, if it did
\* (part_003:93-97)
ResumedToken(r) ==
    IF r.obs.fromString # None /\ r.obs.runs # <<>> THEN r.obs.fromString ELSE None

\* C35: a stored state string is resumed by at most one turn: the two requests
\* the model follows have not both restored the same string and resumed a run
\* from it.
C35_TokenResumedOnce ==
    ResumedToken(Running) # None => ResumedToken(waiting) # ResumedToken(Running)

\* two approvals that overlapped have each resumed the run of the same
\* suspended turn, with the same calls approved, and both have ended
ResumedTwice ==
    /\ BothDone
    /\ ResumedToken(Running) # None /\ ResumedToken(waiting) = ResumedToken(Running)
    /\ obs.approved # <<>> /\ waiting.obs.approved = obs.approved
    /\ sessions[1].pendingRunState = None

\* the handler clears the stored string in the step in which it resumes, and
\* only then
ClearedWhenResumed ==
    [][ (StepOnSession /\ Clears) => sessions'[1].pendingRunState = None ]_vars


-----------------------------------------------------------------------------
(* The turn handler under a clock that moves and a sweep that runs while a  *)
(* request is in flight (part_000 runs cleanupExpiredSessions on a timer).  *)
(* The agent handle is always built.                                        *)

NextExpire ==
    \/ \E message \in {MSG_JAPAN, MSG_HAO}, sessionId \in 0..1 :
          Begin("u1", message, sessionId, TRUE)
    \/ \E d \in TickSteps : Tick(d)
    \/ CallCleanupExpiredSessions
    \/ AgentReady(TRUE)
    \/ \E ok \in BOOLEAN : Restored(ok)
    \/ \E outcome \in ApiOutcomes : Resumed(outcome)
    \/ \E outcome \in ApiOutcomes : RunReturned(outcome)
    \/ \E outcome \in ApiOutcomes : ReRunReturned(outcome)

SpecExpire == Init /\ [][NextExpire]_vars

\* C36: a request that got its session ends with a reply, never with an
\* error, whatever the clock and the sweep did while it was in flight.
C36_TurnEndsWithReply ==
    (task.pc = "done" /\ task.session # None) => result.kind = "reply"

\* the session of the request passed its expiresAt during the run: the turn
\* ended with the TypeError and the session is gone
ExpiredInFlight ==
    /\ task.pc = "done" /\ task.session # None
    /\ result = Thrown("TypeError")
    /\ now > Before.expiresAt
    /\ Before.sessionId \notin DOMAIN sessions

\* as long as the session of the request has not passed its expiresAt when
\* the turn ends, the turn ends with a reply
ReplyUnlessExpired ==
    (task.pc = "done" /\ task.session # None /\ result.kind # "reply")
        => Before.sessionId \notin DOMAIN sessions


\* the intent of stored session k
IntentOf(k) == sessions[k].intent

ConfirmedAndKept ==
    /\ TurnDone
    /\ Before.intent.destination # None /\ Before.intent.confirmed
    /\ After.intent = Before.intent
    /\ detectDestination(task.message, result.response) # None

\* a request that arrived before the destination was recorded ends after
\* another request has confirmed it: confirmed and userApproved are false again
ConfirmationLost ==
    /\ BothDone
    /\ waiting.task.session[1].phase = "confirmation" /\ waiting.task.message = MSG_HAO
    /\ Before.intent.destination = None
    /\ sessions[1].intent.destination # None /\ ~sessions[1].intent.confirmed


\* C38: the log of every stored session has at most MAX_MESSAGES entries in
\* every state, the states between the steps of a turn included.
C38_LogAtMostTwenty ==
    \A k \in DOMAIN sessions : Len(arrays[sessions[k].messages]) <= MAX_MESSAGES

\* a request on a session with a full log awaits its run: getSession shows a
\* log of 21 entries
LongLogInFlight ==
    /\ InTurn /\ task.pc = "run"
    /\ Len(obs.logBefore) = MAX_MESSAGES
    /\ Len(arrays[getSession(Store, 1, now).ret[1].messages]) = MAX_MESSAGES + 1

\* a turn that ended with a reply leaves at most MAX_MESSAGES entries, and
\* no state has more than two above
LogCutAtEnd ==
    /\ TurnDone => Len(StoredLog) <= MAX_MESSAGES
    /\ \A k \in DOMAIN sessions : Len(arrays[sessions[k].messages]) <= MAX_MESSAGES + 2


\* the step is a request that the middleware counted and rejected
RejectedArrives == rateLimitStore' # rateLimitStore /\ ~res'.allowed

\* C39: a request the rate limiter rejects does not reach the handler: the
\* step leaves the stored sessions with all their fields and expiry, the
\* message arrays, the agent handle, the request the handler last handled,
\* its runs and its result as they were, and of the rate-limit records only
\* the one of the request's own key changes, by one count.
C39_RejectedStopsAtLimiter ==
    [][ RejectedArrives =>
          /\ UNCHANGED <<sessions, arrays, agentInstance, task, obs, result>>
          /\ OtherKeysUntouched
          /\ res'.before # None
          /\ rateLimitStore'[res'.key] = counted(res'.before[1])
      ]_vars

\* a request was rejected while the store holds a session with a suspended
\* run, which the last request the handler got had left there
C39_Witness ==
    /\ Requested /\ ~res.allowed
    /\ Counted.count = RATE_LIMIT_REQUESTS + 1
    /\ 1 \in DOMAIN sessions /\ sessions[1].pendingRunState # None
    /\ TurnDone /\ result.response = APPROVAL_PROMPT


\* C40: every stored session has usageData, roamingPlans and recommendation
\* as createSession made them (null, the empty list, null), and the data of
\* the reply of a request has no key other than intent.
C40_DataFieldsAsCreated ==
    /\ \A k \in DOMAIN sessions :
          /\ sessions[k].usageData = None
          /\ sessions[k].roamingPlans = <<>>
          /\ sessions[k].recommendation = None
    /\ result.kind = "reply" => DOMAIN result.data \subseteq {"intent"}

\* a second turn on a session ended with the plan text as reply, after a run
\* that was suspended and resumed; the data of the reply has the intent
C40_Witness ==
    /\ TurnDone /\ WasPending
    /\ result.response = OUT_PLAN
    /\ obs.runs # <<>>
    /\ DOMAIN result.data = {"intent"}

====
